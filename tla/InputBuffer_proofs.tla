------------------------- MODULE InputBuffer_proofs -------------------------
(***************************************************************************)
(* Proofs about InputBuffer, for all files, all splits into reads and all  *)
(* sizes that keep the two #defines of my_vec.c in proportion.             *)
(***************************************************************************)
EXTENDS InputBuffer, TLAPS

USE InputAssumption

-----------------------------------------------------------------------------
(* The operators on strings.                                               *)

LEMMA StrncpyBytes ==
  ASSUME NEW s \in Seq(Byte)
  PROVE  /\ strncpy(s) \in Seq(Byte)
         /\ Len(strncpy(s)) = Len(s)
         /\ \A i \in 1 .. Len(s) :
              strncpy(s)[i] = IF \E j \in 1 .. i : s[j] = NUL THEN NUL ELSE s[i]
<1>1. \A i \in 1 .. Len(s) : s[i] \in Byte
  OBVIOUS
<1>2. strncpy(s) \in [1 .. Len(s) -> Byte]
  BY <1>1 DEF strncpy
<1>3. Len(s) \in Nat
  OBVIOUS
<1>4. strncpy(s) \in Seq(Byte) /\ Len(strncpy(s)) = Len(s)
  BY <1>2, <1>3
<1> QED BY <1>4 DEF strncpy

\* Copied bytes are the source's, or NUL behind a NUL of the source.
LEMMA StrncpyFollows ==
  ASSUME file \in Seq(Byte), NEW s \in Seq(Byte), Follows(s)
  PROVE  Follows(strncpy(s))
<1> DEFINE t == strncpy(s)
<1>1. /\ t \in Seq(Byte) /\ Len(t) = Len(s)
      /\ \A i \in 1 .. Len(s) :
           t[i] = IF \E j \in 1 .. i : s[j] = NUL THEN NUL ELSE s[i]
  BY StrncpyBytes
<1> HIDE DEF t
<1>2. ASSUME NEW i \in 1 .. Len(t)
      PROVE  /\ t[i] \in {file[i], NUL}
             /\ (\A j \in 1 .. i : file[j] # NUL) => t[i] = file[i]
  <2>1. t[i] \in {file[i], NUL}
    BY <1>1, <1>2 DEF Follows
  <2>2. ASSUME \A j \in 1 .. i : file[j] # NUL
        PROVE  t[i] = file[i]
    <3>1. i \in 1 .. Len(s) /\ i \in 1 .. i
      BY <1>1, <1>2
    <3>2. \A j \in 1 .. i : s[j] = file[j]
      BY <1>1, <1>2, <2>2 DEF Follows
    <3>3. ~ \E j \in 1 .. i : s[j] = NUL
      BY <2>2, <3>2
    <3> QED BY <1>1, <3>1, <3>2, <3>3
  <2> QED BY <2>1, <2>2
<1>3. Len(t) <= Len(file)
  BY <1>1 DEF Follows
<1> QED BY <1>2, <1>3 DEF Follows, t

LEMMA ConcatBytes ==
  ASSUME NEW s \in Seq(Byte), NEW u \in Seq(Byte)
  PROVE  s \o u \in Seq(Byte) /\ Len(s \o u) = Len(s) + Len(u)
OBVIOUS

\* What follows the file goes on to do so when the file's next bytes, copied,
\* are appended.
LEMMA AppendFollows ==
  ASSUME file \in Seq(Byte),
         NEW s \in Seq(Byte), Follows(s),
         NEW u \in Seq(Byte),
         Len(s) + Len(u) <= Len(file),
         \A i \in 1 .. Len(u) :
           /\ u[i] \in {file[Len(s) + i], NUL}
           /\ (\A j \in 1 .. Len(s) + i : file[j] # NUL)
                => u[i] = file[Len(s) + i]
  PROVE  s \o u \in Seq(Byte) /\ Len(s \o u) = Len(s) + Len(u)
         /\ Follows(s \o u)
<1> DEFINE t == s \o u
<1>1. t \in Seq(Byte) /\ Len(t) = Len(s) + Len(u)
  OBVIOUS
<1>2. \A i \in 1 .. Len(t) :
        t[i] = IF i <= Len(s) THEN s[i] ELSE u[i - Len(s)]
  OBVIOUS
<1> HIDE DEF t
<1>3. ASSUME NEW i \in 1 .. Len(t)
      PROVE  /\ t[i] \in {file[i], NUL}
             /\ (\A j \in 1 .. i : file[j] # NUL) => t[i] = file[i]
  <2>1. CASE i <= Len(s)
    BY <1>2, <1>3, <2>1 DEF Follows
  <2>2. CASE i > Len(s)
    <3>1. i - Len(s) \in 1 .. Len(u) /\ Len(s) + (i - Len(s)) = i
      BY <1>1, <1>3, <2>2
    <3>2. t[i] = u[i - Len(s)]
      BY <1>2, <1>3, <2>2
    <3> QED BY <3>1, <3>2
  <2> QED BY <1>1, <2>1, <2>2
<1> QED BY <1>1, <1>3 DEF Follows, t

\* The next piece of the file, copied.
LEMMA NextBytesFollow ==
  ASSUME file \in Seq(Byte), NEW k \in Nat, NEW n \in Nat, k + n <= Len(file)
  PROVE  LET u == strncpy(SubSeq(file, k + 1, k + n))
         IN  /\ u \in Seq(Byte) /\ Len(u) = n
             /\ \A i \in 1 .. n :
                  /\ u[i] \in {file[k + i], NUL}
                  /\ (\A j \in 1 .. k + i : file[j] # NUL)
                       => u[i] = file[k + i]
<1> DEFINE r == SubSeq(file, k + 1, k + n)
           u == strncpy(r)
<1>1. r \in Seq(Byte) /\ Len(r) = n /\ \A i \in 1 .. n : r[i] = file[k + i]
  OBVIOUS
<1> HIDE DEF r
<1>2. /\ u \in Seq(Byte) /\ Len(u) = n
      /\ \A i \in 1 .. n :
           u[i] = IF \E j \in 1 .. i : r[j] = NUL THEN NUL ELSE r[i]
  BY <1>1, StrncpyBytes
<1> HIDE DEF u
<1>3. ASSUME NEW i \in 1 .. n
      PROVE  /\ u[i] \in {file[k + i], NUL}
             /\ (\A j \in 1 .. k + i : file[j] # NUL) => u[i] = file[k + i]
  <2>1. ASSUME \A j \in 1 .. k + i : file[j] # NUL
        PROVE  \A j \in 1 .. i : r[j] # NUL
    <3> SUFFICES ASSUME NEW j \in 1 .. i PROVE r[j] # NUL
      OBVIOUS
    <3>1. k + j \in 1 .. k + i /\ j \in 1 .. n
      OBVIOUS
    <3> QED BY <1>1, <2>1, <3>1
  <2> QED BY <1>1, <1>2, <1>3, <2>1
<1> QED BY <1>2, <1>3 DEF u, r
-----------------------------------------------------------------------------
(* The inductive invariant.                                                *)

LEMMA InputInitInductive == InputInit => InputInductive
<1> SUFFICES ASSUME InputInit PROVE InputInductive
  OBVIOUS
<1>1. file \in Seq(Byte)
  BY DEF InputInit
<1>2. InputTypeOK
  <2>1. 0 \in 0 .. Wrap - 1 /\ <<>> \in Seq(Byte) /\ {} \subseteq Nat
    OBVIOUS
  <2> QED BY <2>1 DEF InputInit, InputTypeOK
<1>3. occupied_size <= Len(file) /\ Filling /\ FullReadsFit /\ Cutting
  BY <1>1 DEF InputInit, occupied_size, Filling, FullReadsFit, Cutting
<1>4. BytesFollowInput
  BY <1>1 DEF InputInit, BytesFollowInput, Follows
<1> QED BY <1>2, <1>3, <1>4 DEF InputInductive

\* What every push does to the vector, whatever was moved before.
LEMMA PutKeepsBytes ==
  ASSUME InputInductive,
         NEW n, Arrives(n),
         NEW moved, moved \in Seq(Byte), Len(moved) = occupied_size,
         overruns = {} => Follows(moved),
         Put(moved, n)
  PROVE  /\ vec' \in Seq(Byte) /\ occupied_size' = occupied_size + n
         /\ occupied_size' <= Len(file) /\ file' = file
         /\ overruns = {} => Follows(vec)'
<1>1. /\ file \in Seq(Byte) /\ n \in Nat /\ occupied_size \in Nat
      /\ occupied_size + n <= Len(file)
  BY DEF InputInductive, InputTypeOK, Arrives, occupied_size
<1> DEFINE u == strncpy(read_buff(n))
<1>2. /\ u \in Seq(Byte) /\ Len(u) = n
      /\ \A i \in 1 .. n :
           /\ u[i] \in {file[occupied_size + i], NUL}
           /\ (\A j \in 1 .. occupied_size + i : file[j] # NUL)
                => u[i] = file[occupied_size + i]
  BY <1>1, NextBytesFollow DEF read_buff
<1>3. vec' = moved \o u /\ file' = file
  BY DEF Put
<1> HIDE DEF u
<1>4. vec' \in Seq(Byte) /\ Len(vec') = occupied_size + n
  BY <1>2, <1>3, ConcatBytes
<1>5. ASSUME overruns = {} PROVE Follows(vec)'
  <2>1. Follows(moved \o u)
    BY <1>1, <1>2, <1>5, AppendFollows
  <2> QED BY <1>3, <2>1 DEF Follows
<1> QED BY <1>1, <1>3, <1>4, <1>5 DEF occupied_size

\* While the input is read nothing was cut yet.
LEMMA ReadingKeepsCutting ==
  ASSUME InputInductive, phase = "reading", phase' \in {"reading", "aborted"},
         UNCHANGED cut_vars
  PROVE  Cutting'
BY DEF InputInductive, Cutting, cut_vars

LEMMA PutInductive ==
  ASSUME InputInductive,
         NEW n, Arrives(n),
         NEW moved, moved \in Seq(Byte), Len(moved) = occupied_size,
         overruns = {} => Follows(moved),
         Put(moved, n),
         phase' \in {"reading", "aborted"},
         buff_size' \in Nat, overruns' \subseteq Nat,
         overruns \subseteq overruns',
         Filling', FullReadsFit'
  PROVE  InputInductive'
<1>1. /\ vec' \in Seq(Byte) /\ occupied_size' <= Len(file')
      /\ overruns = {} => Follows(vec)'
  BY PutKeepsBytes
<1>2. /\ UNCHANGED <<protocol, file, cut_vars>>
      /\ short_read' = (short_read \/ n < INPUT_BUFF_SIZE)
  BY DEF Put
<1>3. phase = "reading"
  BY DEF Arrives
<1>4. Cutting'
  BY <1>2, <1>3, ReadingKeepsCutting
<1>5. InputTypeOK'
  BY <1>1, <1>2 DEF InputInductive, InputTypeOK, cut_vars
<1>6. Follows(output)'
  BY <1>2, <1>3, <1>5 DEF InputInductive, InputTypeOK, Cutting, Follows, cut_vars
<1>7. BytesFollowInput'
  BY <1>1, <1>6 DEF BytesFollowInput
<1> QED BY <1>1, <1>4, <1>5, <1>7 DEF InputInductive

LEMMA PushBackInductive ==
  ASSUME InputInductive, NEW n, PushBack(n)
  PROVE  InputInductive'
<1>1. /\ Arrives(n) /\ Put(vec, n) /\ occupied_size + n < buff_size
      /\ UNCHANGED <<phase, buff_size, overruns>>
  BY DEF PushBack, Fits
<1>2. /\ vec \in Seq(Byte) /\ Len(vec) = occupied_size /\ occupied_size \in Nat
      /\ overruns = {} => Follows(vec)
  BY DEF InputInductive, InputTypeOK, occupied_size, BytesFollowInput
<1>3. /\ n \in 1 .. INPUT_BUFF_SIZE /\ phase = "reading"
      /\ occupied_size' = occupied_size + n
  BY <1>1, <1>2, PutKeepsBytes DEF Arrives
<1>4. buff_size \in Nat /\ overruns \subseteq Nat
  BY DEF InputInductive, InputTypeOK
<1>5. Filling'
  BY <1>1, <1>2, <1>3, <1>4 DEF InputInductive, Filling
<1>6. FullReadsFit'
  <2> SUFFICES ASSUME ~ short_read'
               PROVE  overruns' = {} /\ buff_size' >= INPUT_BUFF_SIZE
                      /\ occupied_size' <= buff_size'
    BY DEF FullReadsFit
  <2>1. ~ short_read /\ ~ (n < INPUT_BUFF_SIZE)
    BY <1>1 DEF Put
  <2>2. overruns = {}
    BY <2>1 DEF InputInductive, FullReadsFit
  <2> QED BY <1>1, <1>2, <1>3, <1>4, <2>1, <2>2
<1> QED BY <1>1, <1>2, <1>3, <1>4, <1>5, <1>6, PutInductive

\* What is moved to a new block.
LEMMA MovedFollows ==
  ASSUME InputInductive, NEW old \in Remains
  PROVE  /\ Moved(old) \in Seq(Byte) /\ Len(Moved(old)) = occupied_size
         /\ overruns = {} => Follows(Moved(old))
<1>1. vec \in Seq(Byte) /\ file \in Seq(Byte) /\ NUL \in Byte
  BY DEF InputInductive, InputTypeOK
<1>2. old \in Seq(Byte) /\ Len(old) = Len(vec)
      /\ \A i \in 1 .. Len(vec) : old[i] = vec[i] \/ old[i] = NUL
  <2>1. CASE old = vec
    BY <1>1, <2>1
  <2>2. CASE old = [i \in 1 .. Len(vec) |->
                     IF i <= buff_size THEN vec[i] ELSE NUL]
    <3>1. \A i \in 1 .. Len(vec) : vec[i] \in Byte
      BY <1>1
    <3>2. old \in [1 .. Len(vec) -> Byte] /\ Len(vec) \in Nat
      BY <1>1, <2>2, <3>1
    <3> QED BY <2>2, <3>2
  <2> QED BY <2>1, <2>2 DEF Remains
<1>3. Moved(old) \in Seq(Byte) /\ Len(Moved(old)) = Len(old)
  BY <1>2, StrncpyBytes DEF Moved
<1>4. ASSUME overruns = {} PROVE old = vec
  <2>1. Len(vec) <= buff_size /\ buff_size \in Nat
    BY <1>1, <1>4 DEF InputInductive, InputTypeOK, Filling, occupied_size
  <2>2. vec = [i \in 1 .. Len(vec) |-> IF i <= buff_size THEN vec[i] ELSE NUL]
    <3>1. \A i \in 1 .. Len(vec) : i <= buff_size
      BY <1>1, <2>1
    <3> QED BY <1>1, <3>1
  <2> QED BY <2>2 DEF Remains
<1>5. ASSUME overruns = {} PROVE Follows(Moved(old))
  BY <1>1, <1>4, <1>5, StrncpyFollows
     DEF Moved, InputInductive, BytesFollowInput
<1> QED BY <1>2, <1>3, <1>5 DEF occupied_size

\* An overrun needs a short read before it and one of the first two growths.
LEMMA GrowthFits ==
  ASSUME InputInductive, NEW n, n \in 1 .. INPUT_BUFF_SIZE,
         ~ Fits(n), occupied_size' = occupied_size + n,
         buff_size' = new_size,
         short_read' = (short_read \/ n < INPUT_BUFF_SIZE),
         \/ occupied_size + n <= new_size /\ overruns' = overruns
         \/ occupied_size + n > new_size /\ overruns' = overruns \cup {new_size}
  PROVE  Filling' /\ FullReadsFit' /\ overruns' \subseteq Nat
         /\ buff_size' \in Nat
<1>1. /\ occupied_size \in Nat /\ buff_size \in Nat /\ overruns \subseteq Nat
      /\ INPUT_BUFF_SIZE \in Nat /\ n \in Nat /\ INIT_VEC_SIZE \in Nat
      /\ n <= 2 * INIT_VEC_SIZE /\ INIT_VEC_SIZE > 0
  BY DEF InputInductive, InputTypeOK, occupied_size
<1>2. /\ occupied_size + n >= buff_size /\ new_size = 2 * buff_size
      /\ new_size \in Nat
  BY <1>1 DEF Fits, new_size
<1>3. Filling'
  <2> DEFINE I == INIT_VEC_SIZE
  <2>1. overruns' = {} => occupied_size' <= buff_size'
    BY <1>1, <1>2
  <2>2. CASE buff_size = I /\ occupied_size < I /\ overruns = {}
    <3>1. buff_size' = 2 * I /\ occupied_size' < 3 * I
      BY <1>1, <1>2, <2>2
    <3>2. overruns' \subseteq {2 * I}
      BY <2>2, <3>1
    <3> QED BY <2>1, <3>1, <3>2 DEF Filling
  <2>3. CASE buff_size = 2 * I /\ occupied_size < 3 * I /\ overruns \subseteq {2 * I}
    <3>1. buff_size' = 4 * I /\ occupied_size' < 5 * I
      BY <1>1, <1>2, <2>3
    <3>2. overruns' \subseteq {2 * I, 4 * I}
      BY <2>3, <3>1
    <3> QED BY <2>1, <3>1, <3>2 DEF Filling
  <2>4. CASE buff_size = 4 * I /\ occupied_size < 5 * I
             /\ overruns \subseteq {2 * I, 4 * I}
    <3>1. /\ buff_size' >= 8 * I /\ occupied_size' <= buff_size'
          /\ ~ (occupied_size + n > new_size)
      BY <1>1, <1>2, <2>4
    <3> QED BY <2>1, <2>4, <3>1 DEF Filling
  <2>5. CASE buff_size >= 8 * I /\ occupied_size <= buff_size
             /\ overruns \subseteq {2 * I, 4 * I}
    <3>1. /\ buff_size' >= 8 * I /\ occupied_size' <= buff_size'
          /\ ~ (occupied_size + n > new_size)
      BY <1>1, <1>2, <2>5
    <3> QED BY <2>1, <2>5, <3>1 DEF Filling
  <2> QED BY <2>2, <2>3, <2>4, <2>5 DEF InputInductive, Filling
<1>4. FullReadsFit'
  <2> SUFFICES ASSUME ~ short_read'
               PROVE  /\ overruns' = {} /\ buff_size' >= INPUT_BUFF_SIZE
                      /\ occupied_size' <= buff_size'
    BY DEF FullReadsFit
  <2>1. ~ short_read /\ ~ (n < INPUT_BUFF_SIZE)
    OBVIOUS
  <2>2. /\ overruns = {}
        /\ \/ buff_size = INIT_VEC_SIZE /\ occupied_size = 0
           \/ buff_size >= INPUT_BUFF_SIZE /\ occupied_size <= buff_size
    BY <2>1 DEF InputInductive, FullReadsFit
  <2>3. n = INPUT_BUFF_SIZE
    BY <1>1, <2>1
  <2>4. occupied_size + n <= new_size /\ new_size >= INPUT_BUFF_SIZE
    BY <1>1, <1>2, <2>2, <2>3
  <2> QED BY <1>1, <1>2, <2>2, <2>4
<1>5. overruns' \subseteq Nat /\ buff_size' \in Nat
  BY <1>1, <1>2
<1> QED BY <1>3, <1>4, <1>5

LEMMA GrowAndPushBackInductive ==
  ASSUME InputInductive, NEW n, GrowAndPushBack(n) \/ Overrun(n)
  PROVE  InputInductive'
<1>1. /\ Arrives(n) /\ ~ Fits(n) /\ buff_size' = new_size
      /\ \/ occupied_size + n <= new_size /\ overruns' = overruns
         \/ occupied_size + n > new_size /\ overruns' = overruns \cup {new_size}
  BY DEF GrowAndPushBack, Overrun
<1>2. phase' \in {"reading", "aborted"}
  BY <1>1 DEF GrowAndPushBack, Overrun, Arrives
<1>3. PICK old \in Remains : Put(Moved(old), n)
  BY DEF GrowAndPushBack, Overrun
<1>4. /\ Moved(old) \in Seq(Byte) /\ Len(Moved(old)) = occupied_size
      /\ overruns = {} => Follows(Moved(old))
  BY MovedFollows
<1>5. occupied_size' = occupied_size + n
  BY <1>1, <1>3, <1>4, PutKeepsBytes
<1>6. short_read' = (short_read \/ n < INPUT_BUFF_SIZE)
  BY <1>3 DEF Put
<1>7. n \in 1 .. INPUT_BUFF_SIZE
  BY <1>1 DEF Arrives
<1>8. Filling' /\ FullReadsFit' /\ overruns' \subseteq Nat /\ buff_size' \in Nat
  BY <1>1, <1>5, <1>6, <1>7, GrowthFits
<1>9. overruns \subseteq overruns'
  BY <1>1
<1> QED BY <1>1, <1>2, <1>3, <1>4, <1>8, <1>9, PutInductive

LEMMA ReadFailsInductive ==
  ASSUME InputInductive, ReadFails
  PROVE  InputInductive'
<1>1. /\ UNCHANGED <<protocol, file, vec, buff_size, short_read, overruns>>
      /\ UNCHANGED <<bytes_left, bytes_sent, start_cpy_pos, output>>
      /\ phase = "reading" /\ phase' = "aborted"
  BY DEF ReadFails, read_vars, cut_vars
<1>2. InputTypeOK'
  BY <1>1 DEF InputInductive, InputTypeOK
<1>3. Filling' /\ FullReadsFit' /\ occupied_size' <= Len(file')
  BY <1>1 DEF InputInductive, Filling, FullReadsFit, occupied_size
<1>4. Cutting'
  BY <1>1, ReadingKeepsCutting DEF InputInductive, cut_vars
<1>5. BytesFollowInput'
  BY <1>1 DEF InputInductive, BytesFollowInput, Follows
<1> QED BY <1>2, <1>3, <1>4, <1>5 DEF InputInductive

LEMMA EndOfInputInductive ==
  ASSUME InputInductive, EndOfInput
  PROVE  InputInductive'
<1>1. /\ UNCHANGED <<protocol, file, vec, buff_size, short_read, overruns>>
      /\ UNCHANGED <<bytes_sent, start_cpy_pos, output>>
      /\ phase = "reading" /\ phase' = "cutting" /\ occupied_size = Len(file)
      /\ bytes_left' = occupied_size % Wrap
  BY DEF EndOfInput, read_vars
<1>2. vec \in Seq(Byte) /\ occupied_size \in Nat
  BY DEF InputInductive, InputTypeOK, occupied_size
<1>3. occupied_size % Wrap \in 0 .. Wrap - 1
  BY <1>2
<1>4. InputTypeOK'
  BY <1>1, <1>3 DEF InputInductive, InputTypeOK
<1>5. Filling' /\ FullReadsFit' /\ occupied_size' = occupied_size
  BY <1>1 DEF InputInductive, Filling, FullReadsFit, occupied_size
<1>6. output = <<>> /\ bytes_sent = 0 /\ start_cpy_pos = 0
  BY <1>1 DEF InputInductive, Cutting
<1>7. Cutting'
  BY <1>1, <1>2, <1>3, <1>5, <1>6 DEF Cutting
<1>8. BytesFollowInput'
  BY <1>1 DEF InputInductive, BytesFollowInput, Follows
<1> QED BY <1>1, <1>2, <1>4, <1>5, <1>7, <1>8 DEF InputInductive

LEMMA AllSentInductive ==
  ASSUME InputInductive, AllSent
  PROVE  InputInductive'
<1>1. /\ UNCHANGED <<protocol, file, vec, buff_size, short_read, overruns>>
      /\ UNCHANGED <<bytes_left, bytes_sent, start_cpy_pos, output>>
      /\ phase = "cutting" /\ phase' = "sent" /\ ~ More
  BY DEF AllSent, read_vars, cut_vars
<1>2. InputTypeOK'
  BY <1>1 DEF InputInductive, InputTypeOK
<1>3. Filling' /\ FullReadsFit' /\ occupied_size' = occupied_size
  BY <1>1 DEF InputInductive, Filling, FullReadsFit, occupied_size
<1>4. bytes_sent = occupied_size
  <2>1. /\ bytes_sent + bytes_left = occupied_size % Wrap
        /\ bytes_sent \in Nat /\ bytes_left \in Nat /\ occupied_size \in Nat
    BY <1>1 DEF InputInductive, InputTypeOK, Cutting, occupied_size
  <2>2. occupied_size % Wrap <= occupied_size
    BY <2>1
  <2> QED BY <1>1, <2>1, <2>2 DEF More
<1>5. Cutting'
  BY <1>1, <1>3, <1>4 DEF InputInductive, Cutting
<1>6. BytesFollowInput'
  BY <1>1 DEF InputInductive, BytesFollowInput, Follows
<1> QED BY <1>1, <1>2, <1>3, <1>5, <1>6 DEF InputInductive

LEMMA SmallModulus ==
  ASSUME NEW x \in Nat, NEW w \in Nat \ {0}, x < w
  PROVE  x % w = x
OBVIOUS

\* A counter that wraps is in its range, and never more than what it counts.
LEMMA ModulusRange ==
  ASSUME NEW x \in Nat, NEW w \in Nat \ {0}
  PROVE  x % w <= x /\ x % w \in 0 .. w - 1
<1>1. x % w \in 0 .. w - 1
  OBVIOUS
<1>2. x % w <= x
  <2>1. CASE x < w
    BY <2>1, SmallModulus
  <2>2. CASE x >= w
    BY <1>1, <2>2
  <2> QED BY <2>1, <2>2
<1> QED BY <1>1, <1>2

\* A piece that is cut is the piece of the file at its place.
LEMMA PieceFollows ==
  ASSUME InputInductive, phase = "cutting", bytes_left > 0
  PROVE  LET u == seq_of_bytes(shift)
         IN  /\ u \in Seq(Byte) /\ Len(u) = shift
             /\ overruns = {} =>
                  \A i \in 1 .. Len(u) :
                    /\ u[i] \in {file[bytes_sent + i], NUL}
                    /\ (\A j \in 1 .. bytes_sent + i : file[j] # NUL)
                         => u[i] = file[bytes_sent + i]
<1>1. /\ vec \in Seq(Byte) /\ file \in Seq(Byte) /\ Len(vec) = Len(file)
      /\ start_cpy_pos = bytes_sent /\ bytes_sent \in Nat /\ shift \in Nat
      /\ bytes_sent + bytes_left = Len(vec) % Wrap /\ shift <= bytes_left
      /\ bytes_left \in Nat
  BY DEF InputInductive, InputTypeOK, Cutting, occupied_size, shift
<1>2. bytes_sent + shift <= Len(vec)
  <2>1. Len(vec) \in Nat
    BY <1>1
  <2>2. Len(vec) % Wrap <= Len(vec)
    BY <2>1
  <2> QED BY <1>1, <2>1, <2>2
<1> DEFINE r == SubSeq(vec, bytes_sent + 1, bytes_sent + shift)
           v == strncpy(r)
           u == strncpy(v)
<1>3. /\ r \in Seq(Byte) /\ Len(r) = shift
      /\ \A i \in 1 .. shift : r[i] = vec[bytes_sent + i]
  BY <1>1, <1>2
<1> HIDE DEF r
<1>4. /\ v \in Seq(Byte) /\ Len(v) = shift
      /\ \A i \in 1 .. shift :
           v[i] = IF \E j \in 1 .. i : r[j] = NUL THEN NUL ELSE r[i]
  BY <1>3, StrncpyBytes
<1> HIDE DEF v
<1>5. /\ u \in Seq(Byte) /\ Len(u) = shift
      /\ \A i \in 1 .. shift :
           u[i] = IF \E j \in 1 .. i : v[j] = NUL THEN NUL ELSE v[i]
  BY <1>4, StrncpyBytes
<1> HIDE DEF u
<1>6. ASSUME overruns = {}, NEW i \in 1 .. shift
      PROVE  /\ u[i] \in {file[bytes_sent + i], NUL}
             /\ (\A j \in 1 .. bytes_sent + i : file[j] # NUL)
                  => u[i] = file[bytes_sent + i]
  <2>1. Follows(vec)
    BY <1>6 DEF InputInductive, BytesFollowInput
  <2>2. \A j \in 1 .. i : j \in 1 .. shift /\ bytes_sent + j \in 1 .. Len(vec)
                         /\ bytes_sent + j \in 1 .. bytes_sent + i
    BY <1>1, <1>2, <1>6
  <2>3. i \in 1 .. i /\ bytes_sent + i \in 1 .. Len(vec)
    BY <1>6, <2>2
  <2>4. u[i] = NUL \/ u[i] = vec[bytes_sent + i]
    BY <1>3, <1>4, <1>5, <1>6
  <2>5. u[i] \in {file[bytes_sent + i], NUL}
    BY <2>1, <2>3, <2>4 DEF Follows
  <2>6. ASSUME \A j \in 1 .. bytes_sent + i : file[j] # NUL
        PROVE  u[i] = file[bytes_sent + i]
    <3>1. \A j \in 1 .. i :
            \A k \in 1 .. bytes_sent + j : k \in 1 .. bytes_sent + i
      BY <1>1, <1>6
    <3>2. \A j \in 1 .. i : r[j] = file[bytes_sent + j]
      BY <1>3, <2>1, <2>2, <2>6, <3>1 DEF Follows
    <3>3. \A j \in 1 .. i : r[j] # NUL
      BY <2>2, <2>6, <3>2
    <3>4. \A j \in 1 .. i : v[j] = r[j]
      <4> TAKE j \in 1 .. i
      <4>1. \A k \in 1 .. j : k \in 1 .. i
        BY <1>6
      <4> QED BY <1>4, <2>2, <3>3, <4>1
    <3> QED BY <1>5, <1>6, <2>3, <3>2, <3>3, <3>4
  <2> QED BY <2>5, <2>6
<1> QED BY <1>1, <1>5, <1>6 DEF u, v, r, seq_of_bytes

LEMMA CutPacketInductive ==
  ASSUME InputInductive, CutPacket
  PROVE  InputInductive'
<1> DEFINE u == seq_of_bytes(shift)
<1>1. /\ UNCHANGED <<protocol, file, vec, buff_size, short_read, overruns>>
      /\ phase = "cutting" /\ phase' = phase
      /\ output' = output \o u
      /\ bytes_sent' = (bytes_sent + shift) % Wrap
      /\ bytes_left' = bytes_left - shift
      /\ start_cpy_pos' = next_cpy_pos
  BY DEF CutPacket, read_vars
<1>2. /\ vec \in Seq(Byte) /\ occupied_size \in Nat /\ occupied_size = Len(file)
      /\ bytes_sent \in Nat /\ bytes_left \in Nat /\ start_cpy_pos \in Nat
      /\ output \in Seq(Byte) /\ Len(output) = bytes_sent
      /\ bytes_sent + bytes_left = occupied_size % Wrap
      /\ bytes_left > 0 => start_cpy_pos = bytes_sent
      /\ bytes_left = 0 => start_cpy_pos <= occupied_size
      /\ file \in Seq(Byte)
  BY <1>1 DEF InputInductive, InputTypeOK, Cutting, occupied_size
<1>3. shift \in 0 .. bytes_left /\ (bytes_left > 0 => shift > 0)
      /\ shift \in {bytes_left, SEND_BUFF_SIZE}
  BY <1>2 DEF shift
<1>4. occupied_size % Wrap <= occupied_size /\ occupied_size % Wrap \in 0 .. Wrap - 1
  BY <1>2, ModulusRange, InputAssumption
<1>5. bytes_sent' = bytes_sent + shift
  <2>1. bytes_sent + shift \in 0 .. Wrap - 1
    BY <1>2, <1>3, <1>4
  <2> QED BY <1>1, <2>1, SmallModulus
<1>6. u \in Seq(Byte) /\ Len(u) = shift
  <2>1. CASE bytes_left > 0
    BY <1>1, <2>1, PieceFollows
  <2>2. CASE bytes_left = 0
    <3>1. SubSeq(vec, start_cpy_pos + 1, start_cpy_pos + shift) \in Seq(Byte)
          /\ Len(SubSeq(vec, start_cpy_pos + 1, start_cpy_pos + shift)) = shift
      BY <1>2, <1>3, <2>2
    <3> QED BY <3>1, StrncpyBytes DEF seq_of_bytes
  <2> QED BY <1>2, <2>1, <2>2
<1>7. output' \in Seq(Byte) /\ Len(output') = bytes_sent + shift
  BY <1>1, <1>2, <1>6, ConcatBytes
<1>8. start_cpy_pos' \in Nat
      /\ (bytes_left' > 0 => start_cpy_pos' = bytes_sent')
      /\ (bytes_left' = 0 => start_cpy_pos' <= occupied_size)
  <2>1. CASE bytes_left < SEND_BUFF_SIZE
    <3>1. shift = bytes_left /\ bytes_left' = 0
      BY <1>1, <1>2, <2>1 DEF shift
    <3>2. start_cpy_pos + bytes_left <= occupied_size /\ start_cpy_pos <= occupied_size
      BY <1>2, <1>4
    <3> QED BY <1>1, <1>2, <3>1, <3>2 DEF next_cpy_pos
  <2>2. CASE bytes_left >= SEND_BUFF_SIZE
    <3>1. /\ shift = SEND_BUFF_SIZE /\ SEND_BUFF_SIZE \in Nat
          /\ start_cpy_pos' = bytes_sent + shift
      BY <1>1, <1>2, <2>2 DEF shift, next_cpy_pos
    <3> QED BY <1>2, <1>3, <1>4, <1>5, <3>1
  <2> QED BY <1>2, <2>1, <2>2
<1>9. InputTypeOK'
  <2>1. bytes_left' \in 0 .. Wrap - 1 /\ bytes_sent' \in 0 .. Wrap - 1
    BY <1>1, <1>2, <1>3, <1>4, <1>5
  <2> QED BY <1>1, <1>7, <1>8, <2>1 DEF InputInductive, InputTypeOK
<1>10. Filling' /\ FullReadsFit' /\ occupied_size' = occupied_size
  BY <1>1 DEF InputInductive, Filling, FullReadsFit, occupied_size
<1>11. Cutting'
  <2>1. bytes_sent' + bytes_left' = occupied_size % Wrap
    <3>1. bytes_left' = bytes_left - shift /\ shift \in Nat
      BY <1>1, <1>2, <1>3
    <3>2. (bytes_sent + shift) + (bytes_left - shift) = bytes_sent + bytes_left
      BY <1>2, <3>1
    <3> QED BY <1>2, <1>5, <3>1, <3>2
  <2> QED BY <1>1, <1>2, <1>5, <1>7, <1>8, <1>10, <2>1 DEF Cutting
<1>12. BytesFollowInput'
  <2> SUFFICES ASSUME overruns = {} PROVE Follows(vec)' /\ Follows(output)'
    BY <1>1 DEF BytesFollowInput
  <2>1. Follows(vec) /\ Follows(output)
    BY DEF InputInductive, BytesFollowInput
  <2>2. Follows(vec)'
    BY <1>1, <2>1 DEF Follows
  <2>3. CASE bytes_left > 0
    <3>1. \A i \in 1 .. Len(u) :
            /\ u[i] \in {file[Len(output) + i], NUL}
            /\ (\A j \in 1 .. Len(output) + i : file[j] # NUL)
                 => u[i] = file[Len(output) + i]
      BY <1>1, <1>2, <2>3, PieceFollows
    <3>2. Len(output) + Len(u) <= Len(file)
      BY <1>2, <1>3, <1>4, <1>6
    <3> HIDE DEF u
    <3>3. Follows(output \o u)
      BY <1>2, <1>6, <2>1, <3>1, <3>2, AppendFollows
    <3> QED BY <1>1, <2>2, <3>3 DEF Follows
  <2>4. CASE bytes_left = 0
    <3>1. output' = output
      BY <1>1, <1>2, <1>3, <1>6, <2>4
    <3> QED BY <1>1, <2>1, <2>2, <3>1 DEF Follows
  <2> QED BY <1>2, <2>3, <2>4
<1> QED BY <1>1, <1>2, <1>9, <1>10, <1>11, <1>12 DEF InputInductive

-----------------------------------------------------------------------------

LEMMA InputStutterInductive ==
  ASSUME InputInductive, UNCHANGED input_vars
  PROVE  InputInductive'
<1> USE DEF input_vars, read_vars, cut_vars, occupied_size
<1>1. InputTypeOK'
  BY DEF InputInductive, InputTypeOK
<1>2. (occupied_size <= Len(file))' /\ Filling'
  BY DEF InputInductive, Filling
<1>3. FullReadsFit' /\ Cutting'
  BY DEF InputInductive, FullReadsFit, Cutting
<1>4. BytesFollowInput'
  BY DEF InputInductive, BytesFollowInput, Follows
<1> QED BY <1>1, <1>2, <1>3, <1>4 DEF InputInductive

\* The input, the vector and the packets cut so far stay consistent: the
\* conjunction behind the other theorems of this module.
THEOREM InputInvariant == InputSpec => []InputInductive
<1>1. InputInductive /\ [InputNext]_input_vars => InputInductive'
  <2> SUFFICES ASSUME InputInductive, [InputNext]_input_vars
               PROVE  InputInductive'
    OBVIOUS
  <2>1. ASSUME NEW n \in 1 .. INPUT_BUFF_SIZE, PushBack(n) PROVE InputInductive'
    BY <2>1, PushBackInductive
  <2>2. ASSUME NEW n \in 1 .. INPUT_BUFF_SIZE, GrowAndPushBack(n) \/ Overrun(n)
        PROVE  InputInductive'
    BY <2>2, GrowAndPushBackInductive
  <2>3. CASE EndOfInput
    BY <2>3, EndOfInputInductive
  <2>4. CASE ReadFails
    BY <2>4, ReadFailsInductive
  <2>5. CASE CutPacket
    BY <2>5, CutPacketInductive
  <2>6. CASE AllSent
    BY <2>6, AllSentInductive
  <2>7. CASE UNCHANGED input_vars
    BY <2>7, InputStutterInductive
  <2> QED BY <2>1, <2>2, <2>3, <2>4, <2>5, <2>6, <2>7 DEF InputNext, Reads, Cuts
<1> QED BY <1>1, InputInitInductive, PTL DEF InputSpec

\* The type invariant, for every file and all sizes.
THEOREM InputTypeCorrect == InputSpec => []InputTypeOK
<1>1. InputInductive => InputTypeOK
  BY DEF InputInductive
<1> QED BY <1>1, InputInvariant, PTL

\* What is kept and what is sent are the bytes of the file in their places, lost
\* only behind a NUL, however read() splits the input (my_vec.c, the loops of
\* the three _client_send_DATA).
THEOREM BytesFollow == InputSpec => []BytesFollowInput
<1>1. InputInductive => BytesFollowInput
  BY DEF InputInductive
<1> QED BY <1>1, InputInvariant, PTL

\* The loops of the three _client_send_DATA end with the whole file sent, and
\* never for a file of 2^32 bytes or more.
THEOREM SentWhole == InputSpec => []SentIsWhole
<1>1. InputInductive => SentIsWhole
  BY DEF InputInductive, InputTypeOK, Cutting, SentIsWhole
<1> QED BY <1>1, InputInvariant, PTL

\* Whatever the two #defines of my_vec.c are, as long as a read() brings at most
\* twice the first block: only the first two growths can be too small, only
\* after a short read, and by less than INIT_VEC_SIZE bytes.
THEOREM OverrunEarly == InputSpec => []OverrunIsEarly
<1>1. InputInductive => OverrunIsEarly
  <2> SUFFICES ASSUME InputInductive PROVE OverrunIsEarly
    OBVIOUS
  <2>1. /\ occupied_size \in Nat /\ buff_size \in Nat /\ INIT_VEC_SIZE \in Nat
        /\ INIT_VEC_SIZE > 0
    BY DEF InputInductive, InputTypeOK, occupied_size
  <2>2. occupied_size < buff_size + INIT_VEC_SIZE
    BY <2>1 DEF InputInductive, Filling
  <2>3. overruns \subseteq {2 * INIT_VEC_SIZE, 4 * INIT_VEC_SIZE}
    BY DEF InputInductive, Filling
  <2>4. overruns # {} => short_read
    BY DEF InputInductive, FullReadsFit
  <2> QED BY <2>2, <2>3, <2>4 DEF OverrunIsEarly
<1> QED BY <1>1, InputInvariant, PTL

\* No DATA packet without data: of a file that the counters can count there is
\* something left whenever a loop goes round again.
THEOREM PiecesBytes == InputSpec => []PiecesHaveBytes
<1>1. InputInductive => PiecesHaveBytes
  <2> SUFFICES ASSUME InputInductive, phase = "cutting", More, Len(file) < Wrap
               PROVE  shift > 0
    BY DEF PiecesHaveBytes
  <2>1. /\ occupied_size \in Nat /\ occupied_size = Len(file)
        /\ bytes_sent + bytes_left = occupied_size % Wrap
        /\ bytes_sent \in Nat /\ bytes_left \in Nat
    BY DEF InputInductive, InputTypeOK, Cutting, occupied_size
  <2>2. occupied_size % Wrap = occupied_size
    BY <2>1, SmallModulus
  <2>3. bytes_sent # occupied_size
    BY <2>1 DEF More
  <2>4. bytes_left > 0
    BY <2>1, <2>2, <2>3
  <2> QED BY <2>1, <2>4 DEF shift
<1> QED BY <1>1, InputInvariant, PTL

\* stdin holds no NUL.
TextFile == \A i \in 1 .. Len(file) : file[i] # NUL

\* A file without NULs is sent as it is, however it is read and cut, unless bytes
\* were written beyond the vector: FileIsSent fails for NULs alone.
THEOREM TextIsSent == InputSpec => [](TextFile => FileIsSent)
<1>1. InputTypeOK /\ SentIsWhole /\ BytesFollowInput /\ TextFile => FileIsSent
  <2> SUFFICES ASSUME InputTypeOK, SentIsWhole, BytesFollowInput, TextFile,
                      phase = "sent", overruns = {}
               PROVE  output = file
    BY DEF FileIsSent
  <2>1. /\ file \in Seq(Byte) /\ output \in Seq(Byte)
        /\ Len(output) = Len(file) /\ Follows(output)
    BY DEF InputTypeOK, SentIsWhole, BytesFollowInput
  <2>2. \A i \in 1 .. Len(output) : output[i] = file[i]
    <3> SUFFICES ASSUME NEW i \in 1 .. Len(output) PROVE output[i] = file[i]
      OBVIOUS
    <3>1. \A j \in 1 .. i : file[j] # NUL
      BY <2>1 DEF TextFile
    <3> QED BY <2>1, <3>1 DEF Follows
  <2> QED BY <2>1, <2>2
<1> QED BY <1>1, InputTypeCorrect, SentWhole, BytesFollow, PTL
=============================================================================
