------------------------- MODULE PPCBoverTCP_proofs -------------------------
(***************************************************************************)
(* Theorems about PPCBoverTCP, for all clients, files, other programs and  *)
(* bounds.                                                                 *)
(***************************************************************************)
EXTENDS PPCBoverTCP, SequenceTheorems, TLAPS

(* What the socket operations do to the connections.                       *)

\* All that a step may add to what the parties have not read are these answers to
\* party c.
DownFrom(c, answers) ==
  \A x \in Party : \A i \in 1 .. Len(down'[x]) :
    \/ \E j \in 1 .. Len(down[x]) : down'[x][i] = down[x][j]
    \/ x = c /\ \E j \in 1 .. Len(answers) : down'[x][i] = answers[j]

LEMMA BeginningOf ==
  ASSUME NEW S, NEW s \in Seq(S), NEW t \in Beginnings(s)
  PROVE  /\ t \in Seq(S)
         /\ Len(t) <= Len(s)
         /\ \A i \in 1 .. Len(t) : t[i] = s[i]
<1>1. PICK n \in 0 .. Len(s) : t = SubSeq(s, 1, n)
  BY DEF Beginnings
<1>2. n \in Nat /\ Len(s) \in Nat
  BY LenProperties
<1> QED BY <1>1, <1>2, SubSeqProperties

LEMMA ConnectFacts ==
  ASSUME TypeOKStreams, NEW c \in Party, Connect(c)
  PROVE  /\ TypeOKStreams'
         /\ link[c] = "none" /\ link'[c] = "open"
         /\ \A x \in Party \ {c} : link'[x] = link[x]
         /\ UNCHANGED <<up, down>>
         /\ Len(backlog') = Len(backlog) + 1
         /\ backlog'[Len(backlog) + 1] = c
         /\ \A i \in 1 .. Len(backlog) : backlog'[i] = backlog[i]
BY AppendProperties DEF TypeOKStreams, Connect

LEMMA WriteFacts ==
  ASSUME TypeOKStreams, NEW c \in Party, NEW item \in Item, Write(c, item)
  PROVE  /\ TypeOKStreams'
         /\ UNCHANGED <<down, backlog>>
         /\ \A x \in Party \ {c} : up'[x] = up[x] /\ link'[x] = link[x]
         /\ \/ link[c] = "open" /\ link' = link /\ up'[c] = Append(up[c], item)
            \/ /\ link[c] = "shut" /\ link'[c] \in {"shut", "reset"}
               /\ up'[c] = up[c]
<1>1. up[c] \in Seq(Item) /\ Append(up[c], item) \in Seq(Item)
  BY AppendProperties DEF TypeOKStreams
<1> QED BY <1>1 DEF TypeOKStreams, Write

LEMMA ReceiveFacts ==
  ASSUME TypeOKStreams, NEW c \in Party, NEW item, Receive(c, item)
  PROVE  /\ TypeOKStreams'
         /\ UNCHANGED <<up, backlog, link>>
         /\ DownFrom(c, <<>>)
<1>1. /\ down[c] \in Seq(Packet) /\ down[c] # <<>>
      /\ down' = [down EXCEPT ![c] = Tail(@)]
  BY DEF TypeOKStreams, Receive, Arrived
<1>2. /\ Tail(down[c]) \in Seq(Packet)
      /\ Len(Tail(down[c])) = Len(down[c]) - 1
      /\ \A i \in 1 .. Len(Tail(down[c])) : Tail(down[c])[i] = down[c][i + 1]
  BY <1>1, HeadTailProperties
<1>3. TypeOKStreams'
  BY <1>1, <1>2 DEF TypeOKStreams, Receive
<1>4. DownFrom(c, <<>>)
  <2> SUFFICES ASSUME NEW x \in Party, NEW i \in 1 .. Len(down'[x])
               PROVE  \E j \in 1 .. Len(down[x]) : down'[x][i] = down[x][j]
    BY DEF DownFrom
  <2>1. CASE x = c
    <3>1. down'[x] = Tail(down[c])
      BY <1>1, <2>1 DEF TypeOKStreams
    <3>2. Len(down[c]) \in Nat
      BY <1>1
    <3>3. i + 1 \in 1 .. Len(down[x]) /\ down'[x][i] = down[x][i + 1]
      BY <1>2, <2>1, <3>1, <3>2
    <3> QED BY <3>3
  <2>2. CASE x # c
    BY <1>1, <2>2 DEF TypeOKStreams
  <2> QED BY <2>1, <2>2
<1> QED BY <1>3, <1>4 DEF Receive

LEMMA PartyClosesFacts ==
  ASSUME TypeOKStreams, NEW c \in Party, NEW unread, PartyCloses(c, unread)
  PROVE  /\ TypeOKStreams'
         /\ UNCHANGED <<backlog, link>>
         /\ \A x \in Party \ {c} : up'[x] = up[x]
         /\ Len(up'[c]) <= Len(up[c])
         /\ \A i \in 1 .. Len(up'[c]) : up'[c][i] = up[c][i]
         /\ DownFrom(c, <<>>)
<1>1. up[c] \in Seq(Item)
  BY DEF TypeOKStreams
<1>2. \/ up' = up
      \/ \E s \in Beginnings(up[c]) : up' = [up EXCEPT ![c] = s]
  BY DEF PartyCloses
<1>3. /\ up' \in [Party -> Seq(Item)]
      /\ \A x \in Party \ {c} : up'[x] = up[x]
      /\ Len(up'[c]) <= Len(up[c])
      /\ \A i \in 1 .. Len(up'[c]) : up'[c][i] = up[c][i]
  <2>1. CASE up' = up
    BY <1>1, <2>1 DEF TypeOKStreams
  <2>2. ASSUME NEW s \in Beginnings(up[c]), up' = [up EXCEPT ![c] = s]
        PROVE  <1>3!:
    BY <1>1, <2>2, BeginningOf DEF TypeOKStreams
  <2> QED BY <1>2, <2>1, <2>2
<1>4. down' = [down EXCEPT ![c] = <<>>] /\ <<>> \in Seq(Packet)
  BY EmptySeq DEF PartyCloses
<1>5. DownFrom(c, <<>>)
  BY <1>4 DEF DownFrom, TypeOKStreams
<1>6. TypeOKStreams'
  BY <1>3, <1>4 DEF TypeOKStreams, PartyCloses
<1> QED BY <1>3, <1>5, <1>6 DEF PartyCloses

LEMMA AcceptFacts ==
  ASSUME TypeOKStreams, NEW c \in Party, Accept(c)
  PROVE  /\ TypeOKStreams'
         /\ UNCHANGED <<up, down, link>>
         /\ c = backlog[1] /\ Len(backlog) > 0
         /\ Len(backlog') = Len(backlog) - 1
         /\ \A i \in 1 .. Len(backlog') : backlog'[i] = backlog[i + 1]
BY HeadTailProperties, EmptySeq, LenProperties DEF TypeOKStreams, Accept

LEMMA AnswersFacts ==
  ASSUME TypeOKStreams, NEW c \in Party, NEW rest \in Seq(Item),
         NEW answers \in Seq(Packet), Answers(c, rest, answers)
  PROVE  /\ TypeOKStreams'
         /\ UNCHANGED <<backlog, link>>
         /\ up'[c] = rest /\ \A x \in Party \ {c} : up'[x] = up[x]
         /\ DownFrom(c, answers)
<1>1. /\ down[c] \in Seq(Packet) /\ <<>> \in Seq(Packet)
      /\ down[c] \o answers \in Seq(Packet)
  BY EmptySeq, ConcatProperties DEF TypeOKStreams
<1>2. /\ \A x \in Party \ {c} : down'[x] = down[x]
      /\ down'[c] \in {<<>>, down[c] \o answers}
      /\ down' \in [Party -> Seq(Packet)]
  BY <1>1 DEF Answers, TypeOKStreams
<1>3. ASSUME NEW i \in 1 .. Len(down[c] \o answers)
      PROVE  \/ \E j \in 1 .. Len(down[c]) : (down[c] \o answers)[i] = down[c][j]
             \/ \E j \in 1 .. Len(answers) : (down[c] \o answers)[i] = answers[j]
  <2>1. /\ Len(down[c]) \in Nat /\ Len(answers) \in Nat
        /\ Len(down[c] \o answers) = Len(down[c]) + Len(answers)
        /\ (down[c] \o answers)[i] = IF i <= Len(down[c]) THEN down[c][i]
                                     ELSE answers[i - Len(down[c])]
    BY <1>1, ConcatProperties, LenProperties
  <2>2. CASE i <= Len(down[c])
    BY <2>1, <2>2
  <2>3. CASE i > Len(down[c])
    <3>1. i - Len(down[c]) \in 1 .. Len(answers)
      BY <2>1, <2>3
    <3> QED BY <2>1, <2>3, <3>1
  <2> QED BY <2>1, <2>2, <2>3
<1>4. DownFrom(c, answers)
  <2> SUFFICES ASSUME NEW x \in Party, NEW i \in 1 .. Len(down'[x])
               PROVE  \/ \E j \in 1 .. Len(down[x]) : down'[x][i] = down[x][j]
                      \/ /\ x = c
                         /\ \E j \in 1 .. Len(answers) : down'[x][i] = answers[j]
    BY DEF DownFrom
  <2>1. CASE x # c
    BY <1>2, <2>1
  <2>2. CASE x = c /\ down'[c] = down[c] \o answers
    BY <1>3, <2>2
  <2>3. CASE x = c /\ down'[c] = <<>>
    BY <2>3, EmptySeq
  <2> QED BY <1>2, <2>1, <2>2, <2>3
<1> QED BY <1>2, <1>4 DEF Answers, TypeOKStreams

LEMMA AnswersAndClosesFacts ==
  ASSUME TypeOKStreams, NEW c \in Party, NEW rest, NEW answers \in Seq(Packet),
         AnswersAndCloses(c, rest, answers)
  PROVE  /\ TypeOKStreams'
         /\ UNCHANGED backlog
         /\ link'[c] \in {"shut", "reset"} /\ up'[c] = <<>>
         /\ \A x \in Party \ {c} : up'[x] = up[x] /\ link'[x] = link[x]
         /\ DownFrom(c, answers)
<1> DEFINE sent == IF c \in gone THEN <<>> ELSE down[c] \o answers
<1>1. /\ down[c] \in Seq(Packet) /\ <<>> \in Seq(Packet) /\ <<>> \in Seq(Item)
      /\ down[c] \o answers \in Seq(Packet) /\ sent \in Seq(Packet)
  BY EmptySeq, ConcatProperties DEF TypeOKStreams
<1>2. \E s \in Seq(Packet) :
        /\ down' = [down EXCEPT ![c] = s]
        /\ Len(s) <= Len(sent)
        /\ \A i \in 1 .. Len(s) : s[i] = sent[i]
  <2>1. \/ down' = [down EXCEPT ![c] = sent]
        \/ \E s \in Beginnings(sent) : down' = [down EXCEPT ![c] = s]
    BY DEF AnswersAndCloses
  <2> HIDE DEF sent
  <2>2. CASE down' = [down EXCEPT ![c] = sent]
    <3>1. sent \in Seq(Packet) /\ Len(sent) \in Nat
      BY <1>1, LenProperties
    <3>2. Len(sent) <= Len(sent) /\ \A i \in 1 .. Len(sent) : sent[i] = sent[i]
      BY <3>1
    <3> QED BY <2>2, <3>1, <3>2, Zenon
  <2>3. ASSUME NEW s \in Beginnings(sent), down' = [down EXCEPT ![c] = s]
        PROVE  \E t \in Seq(Packet) :
                 /\ down' = [down EXCEPT ![c] = t]
                 /\ Len(t) <= Len(sent)
                 /\ \A i \in 1 .. Len(t) : t[i] = sent[i]
    <3>1. /\ s \in Seq(Packet) /\ Len(s) <= Len(sent)
          /\ \A i \in 1 .. Len(s) : s[i] = sent[i]
      BY <1>1, BeginningOf
    <3> QED BY <2>3, <3>1
  <2> QED BY <2>1, <2>2, <2>3
<1>3. ASSUME NEW i \in 1 .. Len(sent)
      PROVE  \/ \E j \in 1 .. Len(down[c]) : sent[i] = down[c][j]
             \/ \E j \in 1 .. Len(answers) : sent[i] = answers[j]
  <2>1. sent = down[c] \o answers
    BY <1>3
  <2>2. /\ Len(down[c]) \in Nat /\ Len(answers) \in Nat
        /\ Len(sent) = Len(down[c]) + Len(answers)
        /\ sent[i] = IF i <= Len(down[c]) THEN down[c][i]
                     ELSE answers[i - Len(down[c])]
    BY <1>1, <2>1, ConcatProperties, LenProperties
  <2> HIDE DEF sent
  <2>3. CASE i <= Len(down[c])
    BY <2>2, <2>3
  <2>4. CASE i > Len(down[c])
    <3>1. i - Len(down[c]) \in 1 .. Len(answers)
      BY <2>2, <2>4
    <3> QED BY <2>2, <2>4, <3>1
  <2> QED BY <2>2, <2>3, <2>4
<1>4. DownFrom(c, answers)
  <2> PICK s \in Seq(Packet) : /\ down' = [down EXCEPT ![c] = s]
                               /\ Len(s) <= Len(sent)
                               /\ \A i \in 1 .. Len(s) : s[i] = sent[i]
    BY <1>2
  <2> HIDE DEF sent
  <2>1. Len(s) \in Nat /\ Len(sent) \in Nat
    BY <1>1, LenProperties
  <2>2. down'[c] = s /\ \A x \in Party \ {c} : down'[x] = down[x]
    BY DEF TypeOKStreams
  <2> SUFFICES ASSUME NEW x \in Party, NEW i \in 1 .. Len(down'[x])
               PROVE  \/ \E j \in 1 .. Len(down[x]) : down'[x][i] = down[x][j]
                      \/ /\ x = c
                         /\ \E j \in 1 .. Len(answers) : down'[x][i] = answers[j]
    BY DEF DownFrom
  <2>3. CASE x # c
    BY <2>2, <2>3
  <2>4. CASE x = c
    <3>1. i \in 1 .. Len(sent) /\ down'[x][i] = sent[i]
      BY <2>1, <2>2, <2>4
    <3> QED BY <1>3, <2>4, <3>1
  <2> QED BY <2>3, <2>4
<1>5. TypeOKStreams'
  BY <1>1, <1>2 DEF AnswersAndCloses, TypeOKStreams
<1> QED BY <1>4, <1>5 DEF AnswersAndCloses, TypeOKStreams

LEMMA StopListeningFacts ==
  ASSUME TypeOKStreams, StopListening
  PROVE  /\ TypeOKStreams'
         /\ UNCHANGED down
         /\ backlog' = <<>>
         /\ \A x \in Party : \/ up'[x] = up[x] /\ link'[x] = link[x]
                             \/ up'[x] = <<>> /\ link'[x] = "reset"
<1>1. <<>> \in Seq(Item) /\ <<>> \in Seq(Party)
  BY EmptySeq
<1> QED BY <1>1 DEF TypeOKStreams, StopListening

-----------------------------------------------------------------------------
(* Types.                                                                  *)

LEMMA FixedPart ==
  ASSUME NEW item \in Item, item.kind \in {"CONN", "DATA"}
  PROVE  item \in Packet /\ item.sid \in Sid /\ item.bytes \in Nat
BY DEF Item, Packet, Content, Padding

LEMMA AnswerType ==
  ASSUME NEW kind \in Kind, NEW sid \in Sid
  PROVE  Answer(kind, sid) \in Packet
BY DEF Answer, Fixed, Packet

LEMMA OneAnswer ==
  ASSUME NEW p \in Packet
  PROVE  /\ <<p>> \in Seq(Packet) /\ Len(<<p>>) = 1 /\ <<p>>[1] = p
         /\ <<>> \in Seq(Packet) /\ Len(<<>>) = 0
BY EmptySeq

LEMMA TwoAnswers ==
  ASSUME NEW p \in Packet, NEW q \in Packet
  PROVE  /\ <<p, q>> \in Seq(Packet) /\ Len(<<p, q>>) = 2
         /\ <<p, q>>[1] = p /\ <<p, q>>[2] = q
OBVIOUS

LEMMA UpType ==
  ASSUME TypeOKStreams, NEW c \in Party
  PROVE  /\ up[c] \in Seq(Item) /\ Len(up[c]) \in Nat
         /\ \A i \in 1 .. Len(up[c]) : up[c][i] \in Item
         /\ up[c] # <<>> =>
              /\ Head(up[c]) \in Item /\ Head(up[c]) = up[c][1]
              /\ Len(up[c]) > 0
              /\ Tail(up[c]) \in Seq(Item)
              /\ Len(Tail(up[c])) = Len(up[c]) - 1
              /\ \A i \in 1 .. Len(Tail(up[c])) : Tail(up[c])[i] = up[c][i + 1]
<1>1. up[c] \in Seq(Item)
  BY DEF TypeOKStreams
<1>2. Len(up[c]) \in Nat /\ \A i \in 1 .. Len(up[c]) : up[c][i] \in Item
  BY <1>1, ElementOfSeq, LenProperties
<1>3. up[c] # <<>> => Len(up[c]) > 0
  BY <1>1, <1>2, EmptySeq
<1> QED BY <1>1, <1>2, <1>3, HeadTailProperties

\* Back to accept(), with nothing of the session left.
LEMMA NextClientType ==
  ASSUME TypeOKTCPServer, NextClient,
         finish' \in BOOLEAN, sigints' \in 0 .. MaxSigint,
         delivered' \subseteq [addr : Party, sid : Sid, received : Seq(Item)]
  PROVE  TypeOKTCPServer' /\ SessionPlace'
<1>1. <<>> \in Seq(Item)
  BY EmptySeq
<1> QED BY <1>1 DEF NextClient, TypeOKTCPServer, SessionPlace

\* One step for each thing the server may do with what it reads.
LEMMA ServerReadsType ==
  ASSUME TypeOKStreams, TypeOKTCPServer, SessionPlace, NEW c \in Party,
         NEW item, TCP_ServerReads(c, item)
  PROVE  TypeOKStreams' /\ TypeOKTCPServer' /\ SessionPlace'
<1>1. /\ c = t_client /\ up[c] # <<>> /\ item \in Item
      /\ Tail(up[c]) \in Seq(Item)
  BY UpType DEF TCP_ServerReads, AcceptCONN, AcceptEmptyCONN, RefuseCONN,
     TCP_get_DATA_metainfo, RejectHeader, TCP_read_data_to_buf, FinishSession,
     Reads
<1>e. <<>> \in Seq(Packet) /\ <<>> \in Seq(Item)
  BY EmptySeq
<1>s. t_pc \in {"header", "data"} => t_conn.sid \in Sid /\ t_conn.bytes \in Nat
  BY DEF SessionPlace
<1>2. CASE AcceptCONN(c, item)
  <2>1. item.sid \in Sid /\ item.bytes \in Nat /\ item.bytes > 0
    BY <1>1, <1>2, FixedPart DEF AcceptCONN, IsCONN
  <2>2. <<Answer("CONACC", item.sid)>> \in Seq(Packet)
    BY <2>1, AnswerType, OneAnswer DEF Kind
  <2>3. TypeOKStreams'
    BY <1>1, <1>2, <2>2, AnswersFacts DEF AcceptCONN
  <2>4. t_pc = "CONN" /\ t_rest = 0 /\ t_bytes_received = 0
    BY <1>2 DEF AcceptCONN, Reads, SessionPlace
  <2>5. TypeOKTCPServer' /\ SessionPlace'
    BY <1>2, <2>1, <2>4 DEF AcceptCONN, TypeOKTCPServer, SessionPlace,
       signal_vars, Reads
  <2> QED BY <2>3, <2>5
<1>3. CASE AcceptEmptyCONN(c, item)
  <2>1. item.sid \in Sid
    BY <1>1, <1>3, FixedPart DEF AcceptEmptyCONN, IsCONN
  <2>2. <<Answer("CONACC", item.sid), Answer("RCVD", item.sid)>> \in Seq(Packet)
    BY <2>1, AnswerType, TwoAnswers DEF Kind
  <2>3. TypeOKStreams'
    BY <1>3, <2>2, AnswersAndClosesFacts DEF AcceptEmptyCONN
  <2>d. [addr |-> c, sid |-> item.sid, received |-> <<>>]
          \in [addr : Party, sid : Sid, received : Seq(Item)]
    BY <1>e, <2>1
  <2>4. delivered' \subseteq [addr : Party, sid : Sid, received : Seq(Item)]
    BY <1>3, <2>d DEF AcceptEmptyCONN, TypeOKTCPServer
  <2> QED BY <1>3, <2>3, <2>4, NextClientType
             DEF AcceptEmptyCONN, signal_vars, TypeOKTCPServer
<1>4. CASE RefuseCONN(c, item)
  <2>1. TypeOKStreams'
    BY <1>4, <1>e, AnswersAndClosesFacts DEF RefuseCONN
  <2> QED BY <1>4, <2>1, NextClientType
             DEF RefuseCONN, signal_vars, TypeOKTCPServer
<1>5. CASE TCP_get_DATA_metainfo(c, item)
  <2>1. /\ t_pc = "header" /\ item.bytes \in Nat /\ t_bytes_received \in Nat
        /\ t_conn \in [sid : Sid, bytes : Nat] /\ t_bytes_received < t_conn.bytes
        /\ t_packet_id + 1 \in Nat
    BY <1>1, <1>5, FixedPart DEF TCP_get_DATA_metainfo, IsDATA, Reads,
       SessionPlace, TypeOKTCPServer
  <2>2. TypeOKStreams'
    BY <1>1, <1>5, <1>e, AnswersFacts DEF TCP_get_DATA_metainfo
  <2>3. TypeOKTCPServer'
    BY <1>5, <2>1 DEF TCP_get_DATA_metainfo, TypeOKTCPServer, signal_vars
  <2>4. SessionPlace'
    BY <1>5, <2>1 DEF TCP_get_DATA_metainfo, SessionPlace
  <2> QED BY <2>2, <2>3, <2>4
<1>6. CASE RejectHeader(c, item)
  <2>1. <<Answer("RJT", t_conn.sid)>> \in Seq(Packet)
    BY <1>6, <1>s, AnswerType, OneAnswer DEF RejectHeader, Reads, Kind
  <2>2. TypeOKStreams'
    BY <1>6, <2>1, AnswersAndClosesFacts DEF RejectHeader, Reject
  <2> QED BY <1>6, <2>2, NextClientType
             DEF RejectHeader, Reject, signal_vars, TypeOKTCPServer
<1>7. CASE TCP_read_data_to_buf(c, item)
  <2>1. /\ t_pc = "data" /\ t_rest \in Nat /\ t_rest > 0
        /\ t_rest - 1 \in Nat /\ t_bytes_received \in Nat
        /\ t_rest <= t_bytes_received /\ t_bytes_received <= t_conn.bytes
        /\ t_conn \in [sid : Sid, bytes : Nat]
    BY <1>7 DEF TCP_read_data_to_buf, Reads, SessionPlace, TypeOKTCPServer
  <2>2. TypeOKStreams'
    BY <1>1, <1>7, <1>e, AnswersFacts DEF TCP_read_data_to_buf
  <2>3. Append(t_received, item) \in Seq(Item)
    BY <1>1, AppendProperties DEF TypeOKTCPServer
  <2>4. TypeOKTCPServer'
    BY <1>7, <2>1, <2>3 DEF TCP_read_data_to_buf, TypeOKTCPServer, signal_vars
  <2>5. SessionPlace'
    BY <1>7, <2>1 DEF TCP_read_data_to_buf, SessionPlace
  <2> QED BY <2>2, <2>4, <2>5
<1>8. CASE FinishSession(c, item)
  <2>1. t_conn.sid \in Sid
    BY <1>8, <1>s DEF FinishSession, Reads
  <2>2. <<Answer("RCVD", t_conn.sid)>> \in Seq(Packet)
    BY <2>1, AnswerType, OneAnswer DEF Kind
  <2>3. TypeOKStreams'
    BY <1>8, <2>2, AnswersAndClosesFacts DEF FinishSession
  <2>4. Append(t_received, item) \in Seq(Item)
    BY <1>1, AppendProperties DEF TypeOKTCPServer
  <2>5. delivered' \subseteq [addr : Party, sid : Sid, received : Seq(Item)]
    BY <1>8, <2>1, <2>4 DEF FinishSession, TypeOKTCPServer
  <2> QED BY <1>8, <2>3, <2>5, NextClientType
             DEF FinishSession, signal_vars, TypeOKTCPServer
<1> QED BY <1>2, <1>3, <1>4, <1>5, <1>6, <1>7, <1>8 DEF TCP_ServerReads

LEMMA ReadFailsType ==
  ASSUME TypeOKStreams, TypeOKTCPServer, SessionPlace, NEW c \in Party,
         ReadFails(c), finish' \in BOOLEAN, sigints' \in 0 .. MaxSigint
  PROVE  TypeOKStreams' /\ TypeOKTCPServer' /\ SessionPlace'
<1>1. <<>> \in Seq(Packet)
  BY EmptySeq
<1>2. t_pc \in {"header", "data"} => <<Answer("RJT", t_conn.sid)>> \in Seq(Packet)
  BY AnswerType, OneAnswer DEF SessionPlace, Kind
<1>3. TypeOKStreams'
  BY <1>1, <1>2, AnswersAndClosesFacts DEF ReadFails, Reject
<1>4. NextClient /\ delivered' = delivered
  BY DEF ReadFails, Reject
<1> QED BY <1>3, <1>4, NextClientType DEF TypeOKTCPServer

LEMMA ServerStepType ==
  ASSUME TypeOKStreams, TypeOKTCPServer, SessionPlace,
         ServerStep \/ ServerInterrupted
  PROVE  TypeOKStreams' /\ TypeOKTCPServer' /\ SessionPlace'
<1> USE TCPServerAssumption
<1>1. ASSUME NEW c \in Party, TCP_wait_for_client(c)
      PROVE  TypeOKStreams' /\ TypeOKTCPServer' /\ SessionPlace'
  <2>1. TypeOKStreams'
    BY <1>1, AcceptFacts DEF TCP_wait_for_client
  <2> QED BY <1>1, <2>1 DEF TCP_wait_for_client, TypeOKTCPServer, SessionPlace,
             session_vars, signal_vars
<1>2. ASSUME NEW c \in Party, EndOfStream(c) \/ TCP_ServerTimeout(c)
      PROVE  TypeOKStreams' /\ TypeOKTCPServer' /\ SessionPlace'
  BY <1>2, ReadFailsType DEF EndOfStream, TCP_ServerTimeout, signal_vars,
     TypeOKTCPServer
<1>i. Interrupted => finish' \in BOOLEAN /\ sigints' \in 0 .. MaxSigint
  BY DEF Interrupted, TypeOKTCPServer
<1>3. ASSUME NEW c \in Party, SigintInSession(c)
      PROVE  TypeOKStreams' /\ TypeOKTCPServer' /\ SessionPlace'
  BY <1>3, <1>i, ReadFailsType DEF SigintInSession
<1>4. CASE SigintInAccept
  <2>1. TypeOKStreams'
    BY <1>4, StopListeningFacts DEF SigintInAccept
  <2> QED BY <1>4, <1>i, <2>1 DEF SigintInAccept, TypeOKTCPServer, SessionPlace,
             session_vars
<1>5. CASE SigintBetweenCalls
  BY <1>5, <1>i DEF SigintBetweenCalls, TypeOKTCPServer, SessionPlace,
     TypeOKStreams, session_vars, stream_vars
<1> QED
  BY <1>1, <1>2, <1>3, <1>4, <1>5, ServerReadsType
     DEF ServerStep, ServerInterrupted

(* The clients.                                                            *)

LEMMA ShiftFacts ==
  ASSUME TypeOKTCPClient, NEW c \in Client
  PROVE  /\ shift(c) \in 0 .. SEND_BUFF_SIZE
         /\ c_bytes_sent[c] + shift(c) <= occupied_size[c]
<1>1. /\ occupied_size[c] \in Nat /\ c_bytes_sent[c] \in Nat
      /\ c_bytes_sent[c] <= occupied_size[c] /\ SEND_BUFF_SIZE \in Nat
  BY TCPClientAssumption DEF TypeOKTCPClient
<1> QED BY <1>1 DEF shift

LEMMA ItemTypes ==
  ASSUME TypeOKTCPClient, NEW c \in Client, NEW i \in Nat
  PROVE  /\ CONN(SessionId[c], occupied_size[c]) \in Item
         /\ c_pc[c] = "DATA" /\ i > 0 => Structure(c, i) \in Item
<1>1. /\ SessionId[c] \in Sid /\ occupied_size[c] \in Nat
      /\ c_package_id[c] \in Nat /\ c_bytes_sent[c] \in Nat /\ shift(c) \in Nat
      /\ c \in Party
  BY TCPClientAssumption, ShiftFacts DEF TypeOKTCPClient, Party
<1>2. CONN(SessionId[c], occupied_size[c]) \in Item
  BY <1>1 DEF CONN, Fixed, Item, Packet, Kind
<1>3. DATA(SessionId[c], c_package_id[c], shift(c)) \in Item
  BY <1>1 DEF DATA, Fixed, Item, Packet, Kind
<1>4. i > 1 => Byte(c, c_bytes_sent[c] + i - 2) \in Item
  BY <1>1 DEF Byte, Item, Content
<1> QED BY <1>2, <1>3, <1>4 DEF Structure, Item

LEMMA GotoFacts ==
  ASSUME TypeOKTCPClient, NEW c \in Client,
         NEW pc \in {"connect", "CONN", "DATA"} \cup Waiting \cup Ended,
         Goto(c, pc)
  PROVE  /\ c_pc' \in [Client -> {"connect", "CONN", "DATA"} \cup Waiting
                                   \cup Ended]
         /\ c_pc'[c] = pc /\ \A x \in Client \ {c} : c_pc'[x] = c_pc[x]
BY DEF TypeOKTCPClient, Goto

\* The client ends, whatever it has not read.
LEMMA LeaveType ==
  ASSUME TypeOKStreams, TypeOKTCPClient, NEW c \in Client,
         NEW outcome \in Ended, NEW unread, Leave(c, outcome, unread)
  PROVE  TypeOKStreams' /\ TypeOKTCPClient'
<1>1. TypeOKStreams'
  BY PartyClosesFacts DEF Leave, Party
<1>2. TypeOKTCPClient'
  BY GotoFacts DEF Leave, Progress, TypeOKTCPClient
<1> QED BY <1>1, <1>2

\* What makes a client end.
Leaves(c) ==
  \E outcome \in Ended, unread \in {down[c], Tail(down[c])} :
    /\ Leave(c, outcome, unread)
    /\ c_pc[c] \notin Ended
    /\ outcome = "done" =>
         \E i \in 1 .. Len(down[c]) : down[c][i] = Answer("RCVD", SessionId[c])

LEMMA ClientStepCases ==
  ASSUME NEW c \in Client, TCP_ClientStep(c) \/ Killed(c)
  PROVE  \/ TCP_Connect(c)
         \/ TCP_client_send_CONN(c)
         \/ TCP_WritePart(c)
         \/ TCP_WriteLast(c)
         \/ \E i \in 1 .. Len(down[c]) : check_CONACC(c, down[c][i])
         \/ Leaves(c)
<1>1. ASSUME Quit(c, "failed"), c_pc[c] \notin Ended
      PROVE  Leaves(c)
  BY <1>1 DEF Leaves, Quit, Ended
<1>2. CASE \/ TCP_ConnectFails(c) \/ TCP_WriteFails(c) \/ TCP_GetNothing(c)
           \/ TCP_Timeout(c) \/ Killed(c)
  BY <1>1, <1>2 DEF TCP_ConnectFails, TCP_WriteFails, TCP_GetNothing,
     TCP_Timeout, Killed, Waiting, Ended
<1>3. ASSUME NEW i \in 1 .. Len(down[c]),
             check_RCVD(c, down[c][i]) \/ TCP_GetWrongPacket(c, down[c][i])
      PROVE  Leaves(c)
  BY <1>3 DEF check_RCVD, TCP_GetWrongPacket, Leaves, Ended
<1> QED BY <1>2, <1>3 DEF TCP_ClientStep

LEMMA ClientStepType ==
  ASSUME TypeOKStreams, TypeOKTCPClient, NEW c \in Client,
         TCP_ClientStep(c) \/ Killed(c)
  PROVE  TypeOKStreams' /\ TypeOKTCPClient'
<1>c. c \in Party /\ SEND_BUFF_SIZE \in Nat \ {0} /\ c_written[c] \in Nat
  BY TCPClientAssumption DEF Party, TypeOKTCPClient
<1>g. \A pc : Goto(c, pc) /\ pc \in {"connect", "CONN", "DATA"} \cup Waiting
                                       \cup Ended
        => c_pc' \in [Client -> {"connect", "CONN", "DATA"} \cup Waiting
                                  \cup Ended]
  BY GotoFacts
<1>a. \A n : AfterBytes(c, n) \in {"DATA", "wait_RCVD"}
  BY DEF AfterBytes
<1>1. CASE TCP_Connect(c)
  <2>1. TypeOKStreams'
    BY <1>1, <1>c, ConnectFacts DEF TCP_Connect
  <2> QED BY <1>1, <1>g, <2>1 DEF TCP_Connect, Progress, TypeOKTCPClient
<1>2. CASE TCP_client_send_CONN(c)
  <2>1. TypeOKStreams'
    BY <1>2, <1>c, WriteFacts, ItemTypes DEF TCP_client_send_CONN
  <2> QED BY <1>2, <1>g, <2>1 DEF TCP_client_send_CONN, Progress,
             TypeOKTCPClient, Waiting
<1>3. CASE TCP_WritePart(c)
  <2>1. Structure(c, c_written[c] + 1) \in Item
    BY <1>3, <1>c, ItemTypes DEF TCP_WritePart
  <2>2. TypeOKStreams'
    BY <1>3, <1>c, <2>1, WriteFacts DEF TCP_WritePart
  <2>3. c_written' \in [Client -> 0 .. SEND_BUFF_SIZE]
    BY <1>3, <1>c DEF TCP_WritePart, TypeOKTCPClient
  <2> QED BY <1>3, <2>2, <2>3 DEF TCP_WritePart, TypeOKTCPClient
<1>4. CASE TCP_WriteLast(c)
  <2>1. Structure(c, SEND_BUFF_SIZE + 1) \in Item
    BY <1>4, <1>c, ItemTypes DEF TCP_WriteLast
  <2>2. TypeOKStreams'
    BY <1>4, <1>c, <2>1, WriteFacts DEF TCP_WriteLast
  <2>3. /\ c_written' \in [Client -> 0 .. SEND_BUFF_SIZE]
        /\ c_package_id' \in [Client -> Nat]
    BY <1>4, <1>c DEF TCP_WriteLast, TypeOKTCPClient
  <2>4. /\ c_bytes_sent' \in [Client -> Nat]
        /\ \A x \in Client : c_bytes_sent'[x] <= occupied_size[x]
    BY <1>4, ShiftFacts DEF TCP_WriteLast, TypeOKTCPClient
  <2>5. c_pc' \in [Client -> {"connect", "CONN", "DATA"} \cup Waiting \cup Ended]
    BY <1>4, <1>a, <1>g DEF TCP_WriteLast, Waiting
  <2> QED BY <2>2, <2>3, <2>4, <2>5 DEF TypeOKTCPClient
<1>5. ASSUME NEW i \in 1 .. Len(down[c]), check_CONACC(c, down[c][i])
      PROVE  TypeOKStreams' /\ TypeOKTCPClient'
  <2>1. TypeOKStreams'
    BY <1>5, <1>c, ReceiveFacts DEF check_CONACC
  <2> QED BY <1>5, <1>a, <1>g, <2>1 DEF check_CONACC, Progress,
             TypeOKTCPClient, Waiting
<1>6. CASE Leaves(c)
  BY <1>6, LeaveType DEF Leaves
<1> QED BY <1>1, <1>2, <1>3, <1>4, <1>5, <1>6, ClientStepCases

LEMMA TypeInit ==
  ASSUME Init
  PROVE  TCP_TypeOK /\ SessionPlace
<1>1. <<>> \in Seq(Item) /\ <<>> \in Seq(Packet) /\ <<>> \in Seq(Party)
  BY EmptySeq
<1>2. TypeOKStreams
  <2>1. PICK s \in Scenario :
          /\ up = [c \in Party |-> IF c \in Peer THEN s.scripts[c] ELSE <<>>]
          /\ gone = Client \ s.clients
    BY DEF Init, InitStreams
  <2>2. s.scripts \in [Peer -> Seq(Item)]
    BY ScenarioAssumption
  <2> QED BY <1>1, <2>1, <2>2 DEF Init, InitStreams, TypeOKStreams, Party
<1>3. TypeOKTCPServer /\ SessionPlace
  <2>1. SessionPlace
    BY DEF Init, InitTCPServer, SessionPlace
  <2>f. finish \in BOOLEAN
    BY Zenon DEF Init, InitTCPServer
  <2>g. sigints \in 0 .. MaxSigint
    BY TCPServerAssumption DEF Init, InitTCPServer
  <2>2. finish \in BOOLEAN /\ sigints \in 0 .. MaxSigint
    BY <2>f, <2>g
  <2>3. /\ t_pc = "accept" /\ t_client = Nobody /\ t_conn = NoConn
        /\ t_packet_id = 0 /\ t_bytes_received = 0 /\ t_rest = 0
        /\ t_received \in Seq(Item) /\ delivered = {}
    BY <1>1 DEF Init, InitTCPServer
  <2> QED BY <2>1, <2>2, <2>3 DEF TypeOKTCPServer
<1>4. TypeOKTCPClient
  BY TCPClientAssumption DEF Init, InitTCPClient, TypeOKTCPClient, Ended
<1> QED BY <1>2, <1>3, <1>4 DEF TCP_TypeOK

LEMMA TypeStep ==
  ASSUME TCP_TypeOK, SessionPlace, [Next]_vars
  PROVE  TCP_TypeOK' /\ SessionPlace'
<1>t. TypeOKStreams /\ TypeOKTCPServer /\ TypeOKTCPClient
  BY DEF TCP_TypeOK
<1>s. UNCHANGED tcp_server_vars => TypeOKTCPServer' /\ SessionPlace'
  BY <1>t DEF tcp_server_vars, TypeOKTCPServer, SessionPlace
<1>c. UNCHANGED tcp_client_vars => TypeOKTCPClient'
  BY <1>t DEF tcp_client_vars, TypeOKTCPClient
<1>1. ASSUME NEW c \in Client, ClientStep(c) \/ ClientKilled(c)
      PROVE  TCP_TypeOK' /\ SessionPlace'
  BY <1>1, <1>t, <1>s, ClientStepType DEF ClientStep, ClientKilled, TCP_TypeOK
<1>2. ASSUME NEW p \in Peer, PeerStep(p)
      PROVE  TCP_TypeOK' /\ SessionPlace'
  <2>1. TypeOKStreams'
    BY <1>2, <1>t, ConnectFacts, PartyClosesFacts
       DEF PeerStep, PeerLeaves, Party
  <2> QED BY <1>2, <1>s, <1>c, <2>1 DEF PeerStep, TCP_TypeOK
<1>3. CASE ServerStep \/ ServerInterrupted
  BY <1>3, <1>t, <1>c, ServerStepType DEF ServerStep, ServerInterrupted,
     TCP_TypeOK
<1>4. CASE UNCHANGED vars
  BY <1>4, <1>t, <1>s, <1>c DEF vars, stream_vars, TypeOKStreams, TCP_TypeOK
<1> QED BY <1>1, <1>2, <1>3, <1>4 DEF Next

\* Every variable keeps its type, whatever the other programs write.
THEOREM TCP_TypeCorrect == Spec => []TCP_TypeOK
<1>1. Init => TCP_TypeOK /\ SessionPlace
  BY TypeInit
<1>2. TCP_TypeOK /\ SessionPlace /\ [Next]_vars => TCP_TypeOK' /\ SessionPlace'
  BY TypeStep
<1> QED BY <1>1, <1>2, PTL DEF Spec

-----------------------------------------------------------------------------
(* Places in what a client writes.                                         *)

LEMMA Places ==
  ASSUME NEW id \in Nat
  PROVE  /\ OffsetOf(id) \in Nat /\ OffsetOf(0) = 0
         /\ OffsetOf(id + 1) = OffsetOf(id) + SEND_BUFF_SIZE
         /\ id <= OffsetOf(id)
         /\ StartOf(id) \in Nat /\ StartOf(id) >= 2 /\ StartOf(0) = 2
         /\ StartOf(id + 1) = StartOf(id) + SEND_BUFF_SIZE + 1
<1>1. SEND_BUFF_SIZE \in Nat /\ SEND_BUFF_SIZE >= 1
  BY TCPClientAssumption
<1>2. id * SEND_BUFF_SIZE \in Nat /\ 0 * SEND_BUFF_SIZE = 0
  BY <1>1
<1>3. (id + 1) * SEND_BUFF_SIZE = id * SEND_BUFF_SIZE + SEND_BUFF_SIZE
  BY <1>1
<1>4. id <= id * SEND_BUFF_SIZE
  BY <1>1
<1>5. id * (SEND_BUFF_SIZE + 1) \in Nat /\ 0 * (SEND_BUFF_SIZE + 1) = 0
  BY <1>1
<1>6. (id + 1) * (SEND_BUFF_SIZE + 1)
        = id * (SEND_BUFF_SIZE + 1) + SEND_BUFF_SIZE + 1
  BY <1>1
<1> QED BY <1>1, <1>2, <1>3, <1>4, <1>5, <1>6 DEF OffsetOf, StartOf

\* A later packet starts behind an earlier one.
LEMMA PacketsApart ==
  ASSUME NEW k \in Nat, NEW id \in Nat, k < id
  PROVE  StartOf(k) + SEND_BUFF_SIZE < StartOf(id)
<1>1. SEND_BUFF_SIZE \in Nat
  BY TCPClientAssumption
<1>2. PICK d \in Nat : id = k + 1 + d
  <2>1. id - (k + 1) \in Nat
    OBVIOUS
  <2> QED BY <2>1
<1>3. d * (SEND_BUFF_SIZE + 1) \in Nat
  BY <1>1
<1>4. id * (SEND_BUFF_SIZE + 1)
        = k * (SEND_BUFF_SIZE + 1) + (SEND_BUFF_SIZE + 1)
            + d * (SEND_BUFF_SIZE + 1)
  BY <1>1, <1>2
<1>5. k * (SEND_BUFF_SIZE + 1) \in Nat
  BY <1>1
<1> QED BY <1>1, <1>3, <1>4, <1>5 DEF StartOf

LEMMA ItemAt ==
  ASSUME NEW c \in Client, NEW id \in Nat, NEW i \in 0 .. SEND_BUFF_SIZE,
         NEW item, IsItem(c, StartOf(id) + i, item)
  PROVE  item = PacketItem(c, id, i)
<1>1. SEND_BUFF_SIZE \in Nat /\ StartOf(id) \in Nat /\ StartOf(id) >= 2
  BY TCPClientAssumption, Places
<1>2. PICK k \in 0 .. occupied_size[c], j \in 0 .. SEND_BUFF_SIZE :
        StartOf(id) + i = StartOf(k) + j /\ item = PacketItem(c, k, j)
  BY <1>1 DEF IsItem
<1>3. k \in Nat /\ StartOf(k) \in Nat
  BY TCPClientAssumption, Places
<1>4. ~ k < id /\ ~ id < k
  BY <1>1, <1>2, <1>3, PacketsApart
<1>5. k = id
  BY <1>3, <1>4
<1> QED BY <1>1, <1>2, <1>3, <1>5

LEMMA FirstItem ==
  ASSUME NEW c \in Client, NEW item, IsItem(c, 1, item)
  PROVE  item = CONN(SessionId[c], occupied_size[c])
<1>1. ASSUME NEW k \in 0 .. occupied_size[c], NEW j \in 0 .. SEND_BUFF_SIZE
      PROVE  1 # StartOf(k) + j
  <2>1. k \in Nat /\ SEND_BUFF_SIZE \in Nat
    BY TCPClientAssumption
  <2> QED BY <2>1, Places
<1> QED BY <1>1 DEF IsItem

LEMMA PieceFacts ==
  ASSUME NEW c \in Client, NEW id \in Nat, OffsetOf(id) < occupied_size[c]
  PROVE  /\ BytesIn(c, id) \in 1 .. SEND_BUFF_SIZE
         /\ id \in 0 .. occupied_size[c]
         /\ OffsetOf(id) + BytesIn(c, id) <= occupied_size[c]
         /\ OffsetOf(id) + BytesIn(c, id) < occupied_size[c] =>
              BytesIn(c, id) = SEND_BUFF_SIZE
<1>1. /\ SEND_BUFF_SIZE \in Nat \ {0} /\ occupied_size[c] \in Nat
      /\ OffsetOf(id) \in Nat /\ id <= OffsetOf(id)
  BY TCPClientAssumption, Places
<1> QED BY <1>1 DEF BytesIn

(* The beginnings of a file.                                               *)

LEMMA BeginningType ==
  ASSUME NEW c \in Client, NEW n \in Nat
  PROVE  /\ Beginning(c, n) \in Seq(Item) /\ Len(Beginning(c, n)) = n
         /\ \A i \in 1 .. n : Beginning(c, n)[i] = Byte(c, i - 1)
<1>1. \A i \in 1 .. n : Byte(c, i - 1) \in Item
  BY DEF Byte, Item, Content, Party
<1>2. Beginning(c, n) \in [1 .. n -> Item]
  BY <1>1 DEF Beginning
<1>3. Beginning(c, n) \in Seq(Item)
  BY <1>2
<1> QED BY <1>2, <1>3, LenProperties DEF Beginning

LEMMA BeginningEmpty ==
  ASSUME NEW c \in Client
  PROVE  <<>> = Beginning(c, 0)
<1>1. <<>> \in Seq(Item) /\ Len(<<>>) = 0
  BY EmptySeq
<1>2. Beginning(c, 0) \in Seq(Item) /\ Len(Beginning(c, 0)) = 0
  BY BeginningType
<1> QED BY <1>1, <1>2, EmptySeq

LEMMA BeginningGrows ==
  ASSUME NEW c \in Client, NEW n \in Nat
  PROVE  Append(Beginning(c, n), Byte(c, n)) = Beginning(c, n + 1)
<1> DEFINE s == Append(Beginning(c, n), Byte(c, n))
           t == Beginning(c, n + 1)
<1>1. /\ Beginning(c, n) \in Seq(Item) /\ Len(Beginning(c, n)) = n
      /\ \A i \in 1 .. n : Beginning(c, n)[i] = Byte(c, i - 1)
  BY BeginningType
<1>2. Byte(c, n) \in Item
  BY DEF Byte, Item, Content, Party
<1>3. /\ s \in Seq(Item) /\ Len(s) = n + 1
      /\ \A i \in 1 .. n : s[i] = Beginning(c, n)[i]
      /\ s[n + 1] = Byte(c, n)
  BY <1>1, <1>2, AppendProperties
<1>4. /\ t \in Seq(Item) /\ Len(t) = n + 1
      /\ \A i \in 1 .. n + 1 : t[i] = Byte(c, i - 1)
  BY BeginningType
<1> HIDE DEF s, t
<1>5. ASSUME NEW i \in 1 .. n + 1
      PROVE  s[i] = t[i]
  <2>1. CASE i \in 1 .. n
    BY <1>1, <1>3, <1>4, <2>1
  <2>2. CASE i = n + 1
    BY <1>3, <1>4, <2>2
  <2> QED BY <2>1, <2>2
<1>6. s = t
  BY <1>3, <1>4, <1>5, SeqEqual
<1> QED BY <1>6 DEF s, t

-----------------------------------------------------------------------------
(* The steps of the server.                                                *)

\* The conjuncts of TCP_Inductive that are not about types.
ClientsSound ==
  \A c \in Client : ClientPlace(c) /\ OnTheWay(c) /\ TrueRCVD(c)

Sound ==
  /\ Connections /\ FilePlace /\ ClientsSound
  /\ TCP_SuccessMeansDelivered /\ TCP_SessionHoldsPrefix

LEMMA InductiveParts ==
  TCP_Inductive <=> TCP_TypeOK /\ SessionPlace /\ Sound
BY DEF TCP_Inductive, Sound, ClientsSound

\* What a party may find unread, after the server has answered.
LEMMA DownTrue ==
  ASSUME NEW x \in Client, TrueRCVD(x), delivered \subseteq delivered',
         NEW c, NEW answers, DownFrom(c, answers),
         x = c => \A j \in 1 .. Len(answers) :
           answers[j] = Answer("RCVD", SessionId[x]) => WholeFileDelivered(x)'
  PROVE  TrueRCVD(x)'
<1> SUFFICES ASSUME NEW i \in 1 .. Len(down'[x]),
                    down'[x][i] = Answer("RCVD", SessionId[x])
             PROVE  WholeFileDelivered(x)'
  BY DEF TrueRCVD
<1>1. WholeFileDelivered(x) => WholeFileDelivered(x)'
  BY DEF WholeFileDelivered
<1>2. x \in Party
  BY DEF Party
<1> QED BY <1>1, <1>2 DEF DownFrom, TrueRCVD

LEMMA SuccessStays ==
  ASSUME TCP_SuccessMeansDelivered, delivered \subseteq delivered',
         UNCHANGED tcp_client_vars
  PROVE  TCP_SuccessMeansDelivered'
BY DEF TCP_SuccessMeansDelivered, WholeFileDelivered, tcp_client_vars

LEMMA ClientPlaceStays ==
  ASSUME NEW x \in Client, ClientPlace(x), UNCHANGED tcp_client_vars
  PROVE  ClientPlace(x)'
BY DEF ClientPlace, tcp_client_vars

\* Nothing changes on the connection of a client that the server does not serve.
LEMMA OnTheWayStays ==
  ASSUME NEW x \in Client, OnTheWay(x), UNCHANGED tcp_client_vars,
         up'[x] = up[x], link'[x] = link[x], ItemsRead(x)' = ItemsRead(x)
  PROVE  OnTheWay(x)'
BY DEF OnTheWay, ItemsWritten, tcp_client_vars

LEMMA ItemsReadType ==
  ASSUME TCP_TypeOK, FilePlace, NEW c \in Client
  PROVE  ItemsRead(c) \in Int
<1>1. CASE c # t_client \/ t_pc = "CONN"
  BY <1>1 DEF ItemsRead
<1>2. CASE c = t_client /\ t_pc = "header"
  <2>1. StartOf(t_packet_id) \in Nat
    BY Places DEF TCP_TypeOK, TypeOKTCPServer
  <2> QED BY <1>2, <2>1 DEF ItemsRead
<1>3. CASE c = t_client /\ t_pc = "data"
  <2>1. /\ t_packet_id - 1 \in Nat
        /\ t_bytes_received \in Nat /\ t_rest \in Nat
    BY <1>3 DEF FilePlace, TCP_TypeOK, TypeOKTCPServer
  <2>2. StartOf(t_packet_id - 1) \in Nat /\ OffsetOf(t_packet_id - 1) \in Nat
    BY <2>1, Places
  <2> QED BY <1>3, <2>1, <2>2 DEF ItemsRead
<1>4. c = t_client => t_pc \in {"CONN", "header", "data"}
  BY TCPServerAssumption DEF TCP_TypeOK, TypeOKTCPServer, Party
<1> QED BY <1>1, <1>2, <1>3, <1>4

\* The server takes one more item of the connection and keeps it open.
LEMMA SessionGoesOn ==
  ASSUME TCP_TypeOK, Sound, NEW c \in Party, c = t_client, up[c] # <<>>,
         NEW answers \in Seq(Packet), Answers(c, Tail(up[c]), answers),
         \A j \in 1 .. Len(answers) : answers[j].kind # "RCVD",
         UNCHANGED <<t_client, delivered, tcp_client_vars>>,
         c \in Client => ItemsRead(c)' = ItemsRead(c) + 1
  PROVE  Connections' /\ ClientsSound' /\ TCP_SuccessMeansDelivered'
<1>t. TypeOKStreams
  BY DEF TCP_TypeOK
<1>u. /\ Tail(up[c]) \in Seq(Item) /\ Len(up[c]) \in Nat /\ Len(up[c]) > 0
      /\ Len(Tail(up[c])) = Len(up[c]) - 1
      /\ \A i \in 1 .. Len(Tail(up[c])) : Tail(up[c])[i] = up[c][i + 1]
  BY <1>t, UpType
<1>f. /\ UNCHANGED <<backlog, link>>
      /\ up'[c] = Tail(up[c]) /\ \A x \in Party \ {c} : up'[x] = up[x]
      /\ DownFrom(c, answers)
  BY <1>t, <1>u, AnswersFacts
<1>1. Connections'
  BY <1>f DEF Sound, Connections, Party
<1>2. ASSUME NEW x \in Client
      PROVE  ClientPlace(x)' /\ OnTheWay(x)' /\ TrueRCVD(x)'
  <2>1. ClientPlace(x) /\ OnTheWay(x) /\ TrueRCVD(x)
    BY DEF Sound, ClientsSound
  <2>2. TrueRCVD(x)'
    <3>1. Answer("RCVD", SessionId[x]).kind = "RCVD"
      BY DEF Answer, Fixed
    <3>2. \A j \in 1 .. Len(answers) : answers[j] # Answer("RCVD", SessionId[x])
      BY <3>1
    <3>3. delivered \subseteq delivered'
      OBVIOUS
    <3> QED BY <1>f, <2>1, <3>2, <3>3, DownTrue
  <2>3. CASE x # c
    <3>1. ItemsRead(x)' = ItemsRead(x) /\ x \in Party
      BY <2>3 DEF ItemsRead, Party
    <3> QED BY <1>f, <2>1, <2>2, <2>3, <3>1, ClientPlaceStays, OnTheWayStays
  <2>4. CASE x = c
    <3>1. ItemsRead(c)' = ItemsRead(c) + 1 /\ ItemsRead(c) \in Int
      BY <2>4, ItemsReadType DEF Sound
    <3>2. link[c] = "open" =>
            \A i \in 1 .. Len(up'[c]) :
              IsItem(c, ItemsRead(c)' + i, up'[c][i])
      <4> SUFFICES ASSUME link[c] = "open", NEW i \in 1 .. Len(up'[c])
                   PROVE  IsItem(c, ItemsRead(c)' + i, up'[c][i])
        OBVIOUS
      <4>1. /\ i + 1 \in 1 .. Len(up[c]) /\ up'[c][i] = up[c][i + 1]
            /\ ItemsRead(c)' + i = ItemsRead(c) + (i + 1)
        <5>1. i \in Nat /\ i >= 1 /\ i <= Len(up[c]) - 1
          BY <1>f, <1>u
        <5>2. i + 1 \in 1 .. Len(up[c])
          BY <1>u, <5>1
        <5>3. up'[c][i] = up[c][i + 1]
          BY <1>f, <1>u
        <5> QED BY <3>1, <5>1, <5>2, <5>3
      <4>2. IsItem(c, ItemsRead(c) + (i + 1), up[c][i + 1])
        BY <2>1, <2>4, <4>1 DEF OnTheWay
      <4> QED BY <4>1, <4>2
    <3>3. link[c] = "open" /\ c_pc[c] \notin Ended =>
            ItemsRead(c)' + Len(up'[c]) = ItemsWritten(c)
      BY <1>f, <1>u, <2>1, <2>4, <3>1 DEF OnTheWay
    <3>4. OnTheWay(c)'
      BY <1>f, <3>2, <3>3 DEF OnTheWay, IsItem, ItemsWritten, tcp_client_vars
    <3> QED BY <2>1, <2>2, <2>4, <3>4, ClientPlaceStays
  <2> QED BY <2>3, <2>4
<1> QED BY <1>1, <1>2, SuccessStays DEF ClientsSound, Sound

\* The server closes its end and waits for the next connection.
LEMMA SessionCloses ==
  ASSUME TCP_TypeOK, Sound, NEW c \in Party, c = t_client, NEW rest,
         NEW answers \in Seq(Packet), AnswersAndCloses(c, rest, answers),
         NextClient, UNCHANGED tcp_client_vars, delivered \subseteq delivered',
         c \in Client => \A j \in 1 .. Len(answers) :
           answers[j] = Answer("RCVD", SessionId[c]) => WholeFileDelivered(c)',
         \A s \in delivered' : s \in delivered \/ (s.addr \in Client =>
           s.received = Beginning(s.addr, occupied_size[s.addr]))
  PROVE  Sound'
<1>t. TypeOKStreams /\ TypeOKTCPServer
  BY DEF TCP_TypeOK
<1>f. /\ UNCHANGED backlog
      /\ link'[c] \in {"shut", "reset"} /\ up'[c] = <<>>
      /\ \A x \in Party \ {c} : up'[x] = up[x] /\ link'[x] = link[x]
      /\ DownFrom(c, answers)
  BY <1>t, AnswersAndClosesFacts
<1>n. t_client' = Nobody /\ t_pc' = "accept" /\ Nobody \notin Party
  BY TCPServerAssumption DEF NextClient
<1>1. Connections'
  <2>1. \A i \in 1 .. Len(backlog) : backlog[i] \in Party
    BY <1>t, ElementOfSeq DEF TypeOKStreams
  <2>2. /\ \A i \in 1 .. Len(backlog) :
             /\ link[backlog[i]] = "open" /\ backlog[i] # c
             /\ \A j \in 1 .. Len(backlog) : backlog[i] = backlog[j] => i = j
        /\ \A x \in Client : link[x] # "open" => up[x] = <<>>
    BY DEF Sound, Connections
  <2>3. \A i \in 1 .. Len(backlog) :
          link'[backlog[i]] = "open" /\ backlog[i] # t_client'
    BY <1>f, <1>n, <2>1, <2>2
  <2>4. \A x \in Client : link'[x] # "open" => up'[x] = <<>>
    BY <1>f, <2>2 DEF Party
  <2> QED BY <1>f, <1>n, <2>2, <2>3, <2>4 DEF Connections
<1>2. FilePlace'
  BY <1>n DEF FilePlace
<1>3. TCP_SessionHoldsPrefix'
  BY <1>n DEF TCP_SessionHoldsPrefix, Sound
<1>4. ASSUME NEW x \in Client
      PROVE  ClientPlace(x)' /\ OnTheWay(x)' /\ TrueRCVD(x)'
  <2>1. ClientPlace(x) /\ OnTheWay(x) /\ TrueRCVD(x) /\ x \in Party
    BY DEF Sound, ClientsSound, Party
  <2>2. TrueRCVD(x)'
    BY <1>f, <2>1, DownTrue
  <2>3. CASE x # c
    <3>1. ItemsRead(x)' = ItemsRead(x)
      BY <1>n, <2>1, <2>3 DEF ItemsRead
    <3> QED BY <1>f, <2>1, <2>2, <2>3, <3>1, ClientPlaceStays, OnTheWayStays
  <2>4. CASE x = c
    <3>1. OnTheWay(c)'
      BY <1>f DEF OnTheWay
    <3> QED BY <2>1, <2>2, <2>4, <3>1, ClientPlaceStays
  <2> QED BY <2>3, <2>4
<1>5. TCP_SuccessMeansDelivered'
  BY SuccessStays DEF Sound
<1> QED BY <1>1, <1>2, <1>3, <1>4, <1>5 DEF Sound, ClientsSound

\* The item that a read takes is the next one of what the client writes.
LEMMA NextItem ==
  ASSUME TCP_TypeOK, Sound, NEW c \in Client, c = t_client, up[c] # <<>>
  PROVE  IsItem(c, ItemsRead(c) + 1, Head(up[c]))
<1>1. c \in Party
  BY DEF Party
<1>2. link[c] = "open" /\ OnTheWay(c)
  BY <1>1 DEF Sound, Connections, ClientsSound
<1>3. /\ Len(up[c]) \in Nat /\ Len(up[c]) > 0
      /\ Head(up[c]) = up[c][1]
  BY <1>1, UpType DEF TCP_TypeOK
<1> QED BY <1>2, <1>3 DEF OnTheWay

LEMMA PeerReads ==
  ASSUME TCP_TypeOK, Sound, t_client \notin Client, UNCHANGED t_client,
         UNCHANGED delivered
  PROVE  FilePlace' /\ TCP_SessionHoldsPrefix'
BY DEF FilePlace, TCP_SessionHoldsPrefix, Sound

LEMMA AcceptCONNSound ==
  ASSUME TCP_TypeOK, SessionPlace, Sound, NEW c \in Party, NEW item,
         AcceptCONN(c, item), UNCHANGED tcp_client_vars
  PROVE  Sound'
<1> DEFINE answers == <<Answer("CONACC", item.sid)>>
<1>1. /\ t_pc = "CONN" /\ c = t_client /\ up[c] # <<>> /\ item = Head(up[c])
      /\ Answers(c, Tail(up[c]), answers)
      /\ t_pc' = "header" /\ UNCHANGED <<t_client, delivered>>
      /\ UNCHANGED <<t_packet_id, t_bytes_received, t_rest, t_received>>
      /\ t_conn' = [sid |-> item.sid, bytes |-> item.bytes]
      /\ IsCONN(item) /\ item.bytes > 0
  BY DEF AcceptCONN, Reads
<1>2. /\ t_packet_id = 0 /\ t_bytes_received = 0 /\ t_rest = 0
      /\ t_received = <<>>
  BY <1>1 DEF SessionPlace
<1>3. item.sid \in Sid
  <2>1. item \in Item
    BY <1>1, UpType DEF TCP_TypeOK
  <2> QED BY <1>1, <2>1, FixedPart DEF IsCONN
<1>4. /\ answers \in Seq(Packet)
      /\ \A j \in 1 .. Len(answers) : answers[j].kind # "RCVD"
  <2>1. Answer("CONACC", item.sid) \in Packet
    BY <1>3, AnswerType DEF Kind
  <2>2. Answer("CONACC", item.sid).kind = "CONACC"
    BY DEF Answer, Fixed
  <2> QED BY <2>1, <2>2, OneAnswer
<1> HIDE DEF answers
<1>5. StartOf(0) = 2 /\ OffsetOf(0) = 0
  BY Places
<1>6. c \in Client => ItemsRead(c) = 0 /\ ItemsRead(c)' = 1
  BY <1>1, <1>2, <1>5 DEF ItemsRead, StartOf
<1>7. Connections' /\ ClientsSound' /\ TCP_SuccessMeansDelivered'
  BY <1>1, <1>4, <1>6, SessionGoesOn
<1>8. ASSUME c \in Client
      PROVE  FilePlace' /\ TCP_SessionHoldsPrefix'
  <2>1. item = CONN(SessionId[c], occupied_size[c])
    BY <1>1, <1>6, <1>8, NextItem, FirstItem
  <2>2. item.sid = SessionId[c] /\ item.bytes = occupied_size[c]
    BY <2>1 DEF CONN, Fixed
  <2>3. FilePlace'
    BY <1>1, <1>2, <1>5, <2>2 DEF FilePlace, OffsetOf
  <2>4. Len(t_received') = 0 /\ t_received' = Beginning(c, 0)
    BY <1>1, <1>2, <1>8, BeginningEmpty, EmptySeq
  <2>a. t_bytes_received' = 0 /\ t_rest' = 0 /\ occupied_size[c] > 0
    BY <1>1, <1>2, <2>2
  <2>b. t_received' = Beginning(c, Len(t_received'))
    BY <2>4
  <2>5. /\ t_received' = Beginning(c, Len(t_received'))
        /\ Len(t_received') = t_bytes_received' - t_rest'
        /\ t_bytes_received' <= occupied_size[c]
    <3>1. Len(t_received') = t_bytes_received' - t_rest'
      BY <2>4, <2>a
    <3>2. t_bytes_received' <= occupied_size[c]
      BY <1>8, <2>a, TCPClientAssumption
    <3> QED BY <2>b, <3>1, <3>2
  <2>6. TCP_SessionHoldsPrefix'
    BY <1>1, <2>5 DEF TCP_SessionHoldsPrefix, Beginning, Sound
  <2> QED BY <2>3, <2>6
<1>9. c \notin Client => FilePlace' /\ TCP_SessionHoldsPrefix'
  BY <1>1, PeerReads
<1> QED BY <1>7, <1>8, <1>9 DEF Sound

\* The header that the server reads next announces the bytes of the packet, and at
\* least one.
LEMMA NextHeader ==
  ASSUME TCP_TypeOK, SessionPlace, Sound, NEW c \in Client, c = t_client,
         t_pc = "header", up[c] # <<>>
  PROVE  LET id == t_packet_id
         IN  /\ id \in Nat /\ t_rest = 0 /\ t_bytes_received = OffsetOf(id)
             /\ t_bytes_received < occupied_size[c]
             /\ t_conn = [sid |-> SessionId[c], bytes |-> occupied_size[c]]
             /\ OffsetOf(id) \in Nat /\ StartOf(id) \in Nat
             /\ ItemsRead(c) = StartOf(id) - 1
             /\ Head(up[c]).bytes = BytesIn(c, id)
             /\ BytesIn(c, id) \in 1 .. SEND_BUFF_SIZE
<1> DEFINE id == t_packet_id
<1>1. /\ id \in Nat /\ t_rest = 0 /\ t_bytes_received = OffsetOf(id)
      /\ t_conn.bytes = occupied_size[c] /\ t_bytes_received < t_conn.bytes
      /\ t_conn = [sid |-> SessionId[c], bytes |-> occupied_size[c]]
  BY DEF TCP_TypeOK, TypeOKTCPServer, SessionPlace, FilePlace, Sound
<1>2. /\ OffsetOf(id) \in Nat /\ StartOf(id) \in Nat
      /\ SEND_BUFF_SIZE \in Nat /\ occupied_size[c] \in Nat
  BY <1>1, Places, TCPClientAssumption
<1>3. BytesIn(c, id) \in 1 .. SEND_BUFF_SIZE
  BY <1>1, PieceFacts
<1>4. ItemsRead(c) = StartOf(id) - 1
  BY DEF ItemsRead
<1>5. Head(up[c]) = PacketItem(c, id, 0)
  <2>1. ItemsRead(c) + 1 = StartOf(id) + 0
    BY <1>2, <1>4
  <2>2. IsItem(c, StartOf(id) + 0, Head(up[c]))
    BY <2>1, NextItem
  <2>3. 0 \in 0 .. SEND_BUFF_SIZE
    BY <1>2
  <2> QED BY <1>1, <2>2, <2>3, ItemAt
<1>6. Head(up[c]).bytes = BytesIn(c, id)
  BY <1>5 DEF PacketItem, DATA, Fixed
<1> QED BY <1>1, <1>2, <1>3, <1>4, <1>6

LEMMA HeaderSound ==
  ASSUME TCP_TypeOK, SessionPlace, Sound, NEW c \in Party, NEW item,
         TCP_get_DATA_metainfo(c, item), UNCHANGED tcp_client_vars
  PROVE  Sound'
<1>1. /\ t_pc = "header" /\ c = t_client /\ up[c] # <<>> /\ item = Head(up[c])
      /\ Answers(c, Tail(up[c]), <<>>)
      /\ t_pc' = IF item.bytes = 0 THEN "header" ELSE "data"
      /\ UNCHANGED <<t_client, t_conn, t_received, delivered>>
      /\ t_bytes_received' = t_bytes_received + item.bytes
      /\ t_packet_id' = t_packet_id + 1 /\ t_rest' = item.bytes
      /\ t_bytes_received + item.bytes <= t_conn.bytes
  BY DEF TCP_get_DATA_metainfo, Reads
<1> DEFINE none == <<>>
<1>2. none \in Seq(Packet) /\ \A j \in 1 .. Len(none) : none[j].kind # "RCVD"
  BY EmptySeq
<1>n. Answers(c, Tail(up[c]), none)
  BY <1>1
<1> HIDE DEF none
<1>3. ASSUME c \in Client
      PROVE  /\ ItemsRead(c)' = ItemsRead(c) + 1
             /\ FilePlace' /\ TCP_SessionHoldsPrefix'
  <2> DEFINE id == t_packet_id
             n == BytesIn(c, id)
  <2>1. /\ id \in Nat /\ t_rest = 0 /\ t_bytes_received = OffsetOf(id)
        /\ t_conn.bytes = occupied_size[c] /\ t_bytes_received < t_conn.bytes
        /\ t_conn = [sid |-> SessionId[c], bytes |-> occupied_size[c]]
        /\ ItemsRead(c) = StartOf(id) - 1 /\ item.bytes = n
        /\ n \in 1 .. SEND_BUFF_SIZE
    BY <1>1, <1>3, NextHeader
  <2>2. /\ OffsetOf(id) \in Nat /\ StartOf(id) \in Nat
        /\ SEND_BUFF_SIZE \in Nat /\ occupied_size[c] \in Nat
    BY <1>3, <2>1, Places, TCPClientAssumption
  <2> HIDE DEF n
  <2>3. /\ t_pc' = "data" /\ t_packet_id' - 1 = id
        /\ t_bytes_received' = OffsetOf(id) + n /\ t_rest' = n
    BY <1>1, <2>1
  <2>4. ItemsRead(c)' = StartOf(id)
    <3>1. ItemsRead(c)' = StartOf(t_packet_id' - 1)
            + (t_bytes_received' - t_rest' - OffsetOf(t_packet_id' - 1))
      BY <1>1, <2>3 DEF ItemsRead, StartOf, OffsetOf
    <3>2. t_bytes_received' - t_rest' - OffsetOf(id) = 0
      BY <2>1, <2>2, <2>3
    <3>3. ItemsRead(c)' = StartOf(id) + 0
      <4> HIDE DEF id
      <4> QED BY <2>3, <3>1, <3>2
    <3> QED BY <2>2, <3>3
  <2>5. FilePlace'
    <3>1. t_rest' <= n /\ 0 <= id
      BY <2>1, <2>3
    <3> QED BY <1>1, <2>1, <2>3, <3>1 DEF FilePlace, n, BytesIn, OffsetOf
  <2>6. TCP_SessionHoldsPrefix'
    <3>1. /\ t_received = Beginning(c, Len(t_received))
          /\ Len(t_received) = t_bytes_received - t_rest
      BY <1>1, <1>3 DEF TCP_SessionHoldsPrefix, Sound
    <3>2. Len(t_received) = t_bytes_received' - t_rest'
      BY <2>1, <2>2, <2>3, <3>1
    <3>3. t_bytes_received' <= occupied_size[c]
      BY <1>1, <2>1
    <3> QED BY <1>1, <3>1, <3>2, <3>3
            DEF TCP_SessionHoldsPrefix, Beginning, Sound
  <2>7. ItemsRead(c)' = ItemsRead(c) + 1
    BY <2>1, <2>2, <2>4
  <2> QED BY <2>5, <2>6, <2>7
<1>4. c \notin Client => FilePlace' /\ TCP_SessionHoldsPrefix'
  BY <1>1, PeerReads
<1>5. Connections' /\ ClientsSound' /\ TCP_SuccessMeansDelivered'
  BY <1>1, <1>2, <1>3, <1>n, SessionGoesOn
<1> QED BY <1>3, <1>4, <1>5 DEF Sound

\* The byte that the server reads next, in the packet that it is reading.
LEMMA NextByte ==
  ASSUME TCP_TypeOK, SessionPlace, Sound, NEW c \in Client, c = t_client,
         t_pc = "data", up[c] # <<>>
  PROVE  LET last == t_packet_id - 1
             n == t_bytes_received - t_rest
         IN  /\ last \in Nat /\ n \in Nat
             /\ OffsetOf(last) < occupied_size[c]
             /\ t_bytes_received = OffsetOf(last) + BytesIn(c, last)
             /\ t_conn.bytes = occupied_size[c]
             /\ t_conn.sid = SessionId[c]
             /\ t_received = Beginning(c, n)
             /\ ItemsRead(c) = StartOf(last) + (n - OffsetOf(last))
             /\ Head(up[c]) = Byte(c, n)
<1> DEFINE last == t_packet_id - 1
           n == t_bytes_received - t_rest
           size == BytesIn(c, last)
<1>1. /\ t_packet_id \in Nat /\ t_bytes_received \in Nat /\ t_rest \in Nat
      /\ 0 < t_rest /\ t_rest <= t_bytes_received
      /\ t_bytes_received <= t_conn.bytes
  BY DEF TCP_TypeOK, TypeOKTCPServer, SessionPlace
<1>2. /\ t_conn.bytes = occupied_size[c] /\ t_conn.sid = SessionId[c]
      /\ 0 <= last /\ t_bytes_received = OffsetOf(last) + size
      /\ t_rest <= size
  BY DEF FilePlace, Sound
<1>3. last \in Nat /\ n \in Nat
  BY <1>1, <1>2
<1>4. /\ OffsetOf(last) \in Nat /\ StartOf(last) \in Nat
      /\ SEND_BUFF_SIZE \in Nat /\ occupied_size[c] \in Nat
  BY <1>3, Places, TCPClientAssumption
<1>5. size \in Int
  BY <1>4 DEF BytesIn
<1> HIDE DEF size
<1>6. OffsetOf(last) < occupied_size[c]
  BY <1>1, <1>2, <1>4, <1>5
<1>7. size \in 1 .. SEND_BUFF_SIZE
  BY <1>3, <1>6, PieceFacts DEF size
<1>8. /\ t_received = Beginning(c, Len(t_received))
      /\ Len(t_received) = n
  BY DEF TCP_SessionHoldsPrefix, Sound
<1>9. ItemsRead(c) = StartOf(last) + (n - OffsetOf(last))
  BY DEF ItemsRead
<1> DEFINE i == 1 + (n - OffsetOf(last))
<1>10. i \in 1 .. size /\ i \in 0 .. SEND_BUFF_SIZE
  <2>1. i = 1 + (size - t_rest) /\ i \in Int
    BY <1>1, <1>2, <1>4, <1>5
  <2> HIDE DEF i
  <2> QED BY <1>1, <1>2, <1>4, <1>7, <2>1
<1>11. Head(up[c]) = PacketItem(c, last, i)
  <2>1. ItemsRead(c) + 1 = StartOf(last) + i
    BY <1>3, <1>4, <1>9
  <2>2. IsItem(c, StartOf(last) + i, Head(up[c]))
    BY <2>1, NextItem
  <2> HIDE DEF i, last
  <2> QED BY <1>3, <1>10, <2>2, ItemAt
<1>12. PacketItem(c, last, i) = Byte(c, n)
  <2>1. OffsetOf(last) + i - 1 = n
    BY <1>3, <1>4
  <2>2. i # 0 /\ i <= BytesIn(c, last)
    BY <1>5, <1>10 DEF size
  <2> HIDE DEF i, last
  <2> QED BY <2>1, <2>2 DEF PacketItem
<1> QED BY <1>2, <1>3, <1>6, <1>8, <1>9, <1>11, <1>12 DEF size

LEMMA ByteSound ==
  ASSUME TCP_TypeOK, SessionPlace, Sound, NEW c \in Party, NEW item,
         TCP_read_data_to_buf(c, item), UNCHANGED tcp_client_vars
  PROVE  Sound'
<1>1. /\ t_pc = "data" /\ c = t_client /\ up[c] # <<>> /\ item = Head(up[c])
      /\ Answers(c, Tail(up[c]), <<>>)
      /\ t_pc' = IF t_rest = 1 THEN "header" ELSE "data"
      /\ t_received' = Append(t_received, item)
      /\ t_rest' = t_rest - 1
      /\ t_rest > 1 \/ t_bytes_received < t_conn.bytes
      /\ UNCHANGED <<t_client, t_conn, t_packet_id, t_bytes_received, delivered>>
  BY DEF TCP_read_data_to_buf, Reads
<1> DEFINE none == <<>>
<1>2. none \in Seq(Packet) /\ \A j \in 1 .. Len(none) : none[j].kind # "RCVD"
  BY EmptySeq
<1>n. Answers(c, Tail(up[c]), none)
  BY <1>1
<1> HIDE DEF none
<1>3. /\ t_bytes_received \in Nat /\ t_rest \in Nat /\ 0 < t_rest
      /\ t_rest <= t_bytes_received /\ t_bytes_received <= t_conn.bytes
      /\ t_packet_id \in Nat
  BY <1>1 DEF TCP_TypeOK, TypeOKTCPServer, SessionPlace
<1>4. ASSUME c \in Client
      PROVE  /\ ItemsRead(c)' = ItemsRead(c) + 1
             /\ FilePlace' /\ TCP_SessionHoldsPrefix'
  <2> DEFINE last == t_packet_id - 1
             n == t_bytes_received - t_rest
             size == BytesIn(c, last)
  <2>1. /\ last \in Nat /\ n \in Nat
        /\ OffsetOf(last) < occupied_size[c]
        /\ t_bytes_received = OffsetOf(last) + size
        /\ t_conn.bytes = occupied_size[c] /\ t_conn.sid = SessionId[c]
        /\ t_received = Beginning(c, n)
        /\ ItemsRead(c) = StartOf(last) + (n - OffsetOf(last))
        /\ item = Byte(c, n)
    BY <1>1, <1>4, NextByte
  <2>2. /\ OffsetOf(last) \in Nat /\ StartOf(last) \in Nat
        /\ SEND_BUFF_SIZE \in Nat /\ occupied_size[c] \in Nat
        /\ OffsetOf(last + 1) = OffsetOf(last) + SEND_BUFF_SIZE
        /\ StartOf(last + 1) = StartOf(last) + SEND_BUFF_SIZE + 1
    BY <1>4, <2>1, Places, TCPClientAssumption
  <2>3. /\ size \in 1 .. SEND_BUFF_SIZE
        /\ OffsetOf(last) + size < occupied_size[c] => size = SEND_BUFF_SIZE
    BY <1>4, <2>1, PieceFacts
  <2>c. /\ t_conn = [sid |-> SessionId[c], bytes |-> occupied_size[c]]
        /\ t_rest <= size
    BY <1>1, <1>4 DEF FilePlace, Sound
  <2>l. last + 1 = t_packet_id
    BY <1>3
  <2> HIDE DEF last, size
  <2>4. t_received' = Beginning(c, n + 1)
    BY <1>1, <1>4, <2>1, BeginningGrows
  <2>5. /\ t_bytes_received' - t_rest' = n + 1
        /\ Len(t_received') = n + 1
    BY <1>1, <1>3, <1>4, <2>1, <2>4, BeginningType
  <2>6. TCP_SessionHoldsPrefix'
    <3>1. t_received' = Beginning(c, Len(t_received'))
      BY <2>4, <2>5
    <3>2. t_bytes_received' <= occupied_size[c]
      BY <1>1, <1>3, <2>1
    <3>3. Len(t_received') = t_bytes_received' - t_rest'
      BY <2>5
    <3> QED BY <1>1, <3>1, <3>2, <3>3
            DEF TCP_SessionHoldsPrefix, Beginning, Sound
  <2>7. CASE t_rest > 1
    <3>1. t_pc' = "data" /\ t_rest' <= size
      BY <1>1, <1>3, <2>3, <2>7, <2>c
    <3>2. FilePlace'
      <4>1. 0 <= last
        BY <2>1
      <4> QED BY <1>1, <2>1, <2>c, <3>1, <4>1
              DEF FilePlace, last, size, BytesIn, OffsetOf
    <3>3. ItemsRead(c)' = StartOf(last) + (n + 1 - OffsetOf(last))
      <4>1. ItemsRead(c)' = StartOf(last)
              + (t_bytes_received' - t_rest' - OffsetOf(last))
        BY <1>1, <3>1 DEF ItemsRead, last, StartOf, OffsetOf
      <4>2. t_bytes_received' - t_rest' - OffsetOf(last) = n + 1 - OffsetOf(last)
        BY <2>1, <2>2, <2>5
      <4> HIDE DEF n
      <4> QED BY <4>1, <4>2
    <3>4. ItemsRead(c)' = ItemsRead(c) + 1
      BY <2>1, <2>2, <3>3
    <3> QED BY <2>6, <3>2, <3>4
  <2>8. CASE t_rest = 1
    <3>1. t_pc' = "header" /\ size = SEND_BUFF_SIZE
      BY <1>1, <1>3, <2>1, <2>3, <2>8
    <3>2. t_bytes_received = OffsetOf(t_packet_id)
      BY <2>1, <2>2, <2>l, <3>1
    <3>3. FilePlace'
      BY <1>1, <2>c, <3>1, <3>2 DEF FilePlace, OffsetOf
    <3>4. ItemsRead(c)' = StartOf(t_packet_id) - 1
      BY <1>1, <3>1 DEF ItemsRead, StartOf
    <3>5. ItemsRead(c)' = ItemsRead(c) + 1
      BY <1>3, <2>1, <2>2, <2>8, <2>l, <3>1, <3>4
    <3> QED BY <2>6, <3>3, <3>5
  <2> QED BY <1>3, <2>7, <2>8
<1>5. c \notin Client => FilePlace' /\ TCP_SessionHoldsPrefix'
  BY <1>1, PeerReads
<1>6. Connections' /\ ClientsSound' /\ TCP_SuccessMeansDelivered'
  BY <1>1, <1>2, <1>4, <1>n, SessionGoesOn
<1> QED BY <1>4, <1>5, <1>6 DEF Sound

\* A session that ends without an RCVD, with or without an RJT.
LEMMA SessionAborted ==
  ASSUME TCP_TypeOK, SessionPlace, Sound, NEW c \in Party, c = t_client, NEW rest,
         \/ AnswersAndCloses(c, rest, <<>>) /\ NextClient /\ UNCHANGED delivered
         \/ t_pc \in {"header", "data"} /\ Reject(c, rest),
         UNCHANGED tcp_client_vars
  PROVE  Sound'
<1>1. CASE AnswersAndCloses(c, rest, <<>>) /\ NextClient /\ UNCHANGED delivered
  <2> DEFINE none == <<>>
  <2>1. /\ none \in Seq(Packet) /\ AnswersAndCloses(c, rest, none)
        /\ \A j \in 1 .. Len(none) : none[j] # Answer("RCVD", SessionId[c])
    BY <1>1, EmptySeq
  <2> HIDE DEF none
  <2> QED BY <1>1, <2>1, SessionCloses
<1>2. CASE t_pc \in {"header", "data"} /\ Reject(c, rest)
  <2> DEFINE one == <<Answer("RJT", t_conn.sid)>>
  <2>1. AnswersAndCloses(c, rest, one) /\ NextClient /\ UNCHANGED delivered
    BY <1>2 DEF Reject
  <2>2. Answer("RJT", t_conn.sid) \in Packet
    BY <1>2, AnswerType DEF SessionPlace, Kind
  <2>3. Answer("RJT", t_conn.sid) # Answer("RCVD", SessionId[c])
    BY DEF Answer, Fixed
  <2>4. /\ one \in Seq(Packet)
        /\ \A j \in 1 .. Len(one) : one[j] # Answer("RCVD", SessionId[c])
    BY <2>2, <2>3, OneAnswer
  <2> HIDE DEF one
  <2> QED BY <2>1, <2>4, SessionCloses
<1> QED BY <1>1, <1>2

LEMMA AcceptEmptyCONNSound ==
  ASSUME TCP_TypeOK, SessionPlace, Sound, NEW c \in Party, NEW item,
         AcceptEmptyCONN(c, item), UNCHANGED tcp_client_vars
  PROVE  Sound'
<1> DEFINE both == <<Answer("CONACC", item.sid), Answer("RCVD", item.sid)>>
           new == [addr |-> c, sid |-> item.sid, received |-> <<>>]
<1>1. /\ t_pc = "CONN" /\ c = t_client /\ up[c] # <<>> /\ item = Head(up[c])
      /\ AnswersAndCloses(c, Tail(up[c]), both) /\ NextClient
      /\ delivered' = delivered \cup {new}
      /\ IsCONN(item) /\ item.bytes = 0
  BY DEF AcceptEmptyCONN, Reads
<1>2. item.sid \in Sid
  <2>1. item \in Item
    BY <1>1, UpType DEF TCP_TypeOK
  <2> QED BY <1>1, <2>1, FixedPart DEF IsCONN
<1>3. both \in Seq(Packet)
  BY <1>2, AnswerType, TwoAnswers DEF Kind
<1> HIDE DEF both
<1>4. ASSUME c \in Client
      PROVE  /\ item.sid = SessionId[c] /\ occupied_size[c] = 0
             /\ <<>> = Beginning(c, occupied_size[c])
  <2>1. IsItem(c, 1, item)
    BY <1>1, <1>4, NextItem DEF ItemsRead
  <2>2. item = CONN(SessionId[c], occupied_size[c])
    BY <1>4, <2>1, FirstItem
  <2>3. item.sid = SessionId[c] /\ item.bytes = occupied_size[c]
    BY <2>2 DEF CONN, Fixed
  <2> QED BY <1>1, <1>4, <2>3, BeginningEmpty
<1>5. c \in Client => WholeFileDelivered(c)'
  BY <1>1, <1>4 DEF WholeFileDelivered, Beginning
<1>6. \A s \in delivered' : s \in delivered \/ (s.addr \in Client =>
        s.received = Beginning(s.addr, occupied_size[s.addr]))
  BY <1>1, <1>4
<1>7. delivered \subseteq delivered'
  BY <1>1
<1> HIDE DEF new
<1> QED BY <1>1, <1>3, <1>5, <1>6, <1>7, SessionCloses

LEMMA FinishSessionSound ==
  ASSUME TCP_TypeOK, SessionPlace, Sound, NEW c \in Party, NEW item,
         FinishSession(c, item), UNCHANGED tcp_client_vars
  PROVE  Sound'
<1> DEFINE one == <<Answer("RCVD", t_conn.sid)>>
           new == [addr |-> c, sid |-> t_conn.sid,
                   received |-> Append(t_received, item)]
<1>1. /\ t_pc = "data" /\ c = t_client /\ up[c] # <<>> /\ item = Head(up[c])
      /\ t_rest = 1 /\ t_bytes_received = t_conn.bytes
      /\ AnswersAndCloses(c, Tail(up[c]), one) /\ NextClient
      /\ delivered' = delivered \cup {new}
  BY DEF FinishSession, Reads
<1>2. one \in Seq(Packet)
  BY <1>1, AnswerType, OneAnswer DEF SessionPlace, Kind
<1> HIDE DEF one
<1>3. ASSUME c \in Client
      PROVE  /\ t_conn.sid = SessionId[c]
             /\ Append(t_received, item) = Beginning(c, occupied_size[c])
  <2> DEFINE n == t_bytes_received - t_rest
  <2>1. /\ n \in Nat /\ t_conn.bytes = occupied_size[c]
        /\ t_conn.sid = SessionId[c]
        /\ t_received = Beginning(c, n) /\ item = Byte(c, n)
    BY <1>1, <1>3, NextByte
  <2>2. occupied_size[c] \in Nat
    BY <1>3, TCPClientAssumption
  <2>3. n + 1 = occupied_size[c]
    BY <1>1, <2>1, <2>2
  <2> HIDE DEF n
  <2>4. Append(t_received, item) = Beginning(c, n + 1)
    BY <1>3, <2>1, BeginningGrows
  <2> QED BY <2>1, <2>3, <2>4
<1>4. c \in Client => WholeFileDelivered(c)'
  BY <1>1, <1>3 DEF WholeFileDelivered, Beginning
<1>5. \A s \in delivered' : s \in delivered \/ (s.addr \in Client =>
        s.received = Beginning(s.addr, occupied_size[s.addr]))
  <2>1. new.addr = c /\ new.received = Append(t_received, item)
    OBVIOUS
  <2>2. new.addr \in Client =>
          new.received = Beginning(new.addr, occupied_size[new.addr])
    BY <1>3, <2>1
  <2> HIDE DEF new
  <2> QED BY <1>1, <2>2
<1>6. delivered \subseteq delivered'
  BY <1>1
<1> HIDE DEF new
<1> QED BY <1>1, <1>2, <1>4, <1>5, <1>6, SessionCloses

LEMMA ServerReadsSound ==
  ASSUME TCP_TypeOK, SessionPlace, Sound, NEW c \in Party, NEW item,
         TCP_ServerReads(c, item), UNCHANGED tcp_client_vars
  PROVE  Sound'
<1>1. CASE RefuseCONN(c, item)
  BY <1>1, SessionAborted DEF RefuseCONN, Reads
<1>2. CASE RejectHeader(c, item)
  BY <1>2, SessionAborted DEF RejectHeader, Reads
<1> QED BY <1>1, <1>2, AcceptCONNSound, AcceptEmptyCONNSound, HeaderSound,
           ByteSound, FinishSessionSound DEF TCP_ServerReads

LEMMA ReadFailsSound ==
  ASSUME TCP_TypeOK, SessionPlace, Sound, NEW c \in Party, ReadFails(c),
         UNCHANGED tcp_client_vars
  PROVE  Sound'
BY SessionAborted DEF ReadFails

LEMMA WaitForClientSound ==
  ASSUME TCP_TypeOK, SessionPlace, Sound, NEW c \in Party,
         TCP_wait_for_client(c), UNCHANGED tcp_client_vars
  PROVE  Sound'
<1>1. /\ t_pc = "accept" /\ t_pc' = "CONN" /\ t_client' = c
      /\ UNCHANGED <<session_vars, delivered>>
  BY DEF TCP_wait_for_client
<1>2. /\ UNCHANGED <<up, down, link>>
      /\ c = backlog[1] /\ Len(backlog) > 0
      /\ Len(backlog') = Len(backlog) - 1
      /\ \A i \in 1 .. Len(backlog') : backlog'[i] = backlog[i + 1]
  BY AcceptFacts DEF TCP_wait_for_client, TCP_TypeOK
<1>3. Len(backlog) \in Nat
  BY LenProperties DEF TCP_TypeOK, TypeOKStreams
<1>4. Connections'
  <2>1. /\ \A i \in 1 .. Len(backlog) :
             /\ link[backlog[i]] = "open"
             /\ \A j \in 1 .. Len(backlog) : backlog[i] = backlog[j] => i = j
        /\ \A x \in Client : link[x] # "open" => up[x] = <<>>
    BY DEF Sound, Connections
  <2>2. \A i \in 1 .. Len(backlog') : i \in Nat /\ i + 1 \in 1 .. Len(backlog)
    BY <1>2, <1>3
  <2>3. link'[c] = "open" /\ 1 \in 1 .. Len(backlog)
    BY <1>2, <1>3, <2>1
  <2>4. ASSUME NEW i \in 1 .. Len(backlog')
        PROVE  /\ link'[backlog'[i]] = "open" /\ backlog'[i] # t_client'
               /\ \A j \in 1 .. Len(backlog') : backlog'[i] = backlog'[j] => i = j
    <3>1. backlog'[i] = backlog[i + 1] /\ i + 1 \in 1 .. Len(backlog) /\ i \in Nat
      BY <1>2, <2>2
    <3>2. link'[backlog'[i]] = "open"
      BY <1>2, <2>1, <3>1
    <3>3. backlog'[i] # t_client'
      <4>1. i + 1 # 1 /\ i \in 1 .. Len(backlog')
        BY <3>1
      <4> QED BY <1>1, <1>2, <2>1, <2>3, <3>1, <4>1
    <3>4. ASSUME NEW j \in 1 .. Len(backlog'), backlog'[i] = backlog'[j]
          PROVE  i = j
      <4>1. backlog[i + 1] = backlog[j + 1] /\ j + 1 \in 1 .. Len(backlog)
        BY <1>2, <2>2, <3>1, <3>4
      <4>2. i + 1 = j + 1 /\ j \in Nat
        BY <2>1, <2>2, <3>1, <4>1
      <4> QED BY <3>1, <4>2
    <3> QED BY <3>2, <3>3, <3>4
  <2> QED BY <1>1, <1>2, <2>1, <2>3, <2>4 DEF Connections
<1>5. FilePlace' /\ TCP_SessionHoldsPrefix'
  BY <1>1 DEF FilePlace, TCP_SessionHoldsPrefix, Sound
<1>6. ASSUME NEW x \in Client
      PROVE  ClientPlace(x)' /\ OnTheWay(x)' /\ TrueRCVD(x)'
  <2>1. ClientPlace(x) /\ OnTheWay(x) /\ TrueRCVD(x)
    BY DEF Sound, ClientsSound
  <2>2. t_client = Nobody /\ x # Nobody
    BY <1>1, TCPServerAssumption DEF TCP_TypeOK, TypeOKTCPServer, Party
  <2>3. ItemsRead(x) = 0 /\ ItemsRead(x)' = 0
    BY <1>1, <2>2 DEF ItemsRead
  <2> QED BY <1>1, <1>2, <2>1, <2>3, ClientPlaceStays, OnTheWayStays
          DEF TrueRCVD, WholeFileDelivered
<1>7. TCP_SuccessMeansDelivered'
  BY <1>1, SuccessStays DEF Sound
<1> QED BY <1>4, <1>5, <1>6, <1>7 DEF Sound, ClientsSound

LEMMA SigintInAcceptSound ==
  ASSUME TCP_TypeOK, SessionPlace, Sound, SigintInAccept,
         UNCHANGED tcp_client_vars
  PROVE  Sound'
<1>1. /\ t_pc = "accept" /\ t_pc' = "exit"
      /\ UNCHANGED <<t_client, session_vars, delivered>>
      /\ t_client = Nobody
  BY DEF SigintInAccept, TCP_TypeOK, TypeOKTCPServer
<1>2. /\ UNCHANGED down /\ backlog' = <<>>
      /\ \A x \in Party : \/ up'[x] = up[x] /\ link'[x] = link[x]
                          \/ up'[x] = <<>> /\ link'[x] = "reset"
  BY StopListeningFacts DEF SigintInAccept, TCP_TypeOK
<1>3. Connections'
  <2>1. \A x \in Client : link'[x] # "open" => up'[x] = <<>>
    BY <1>2 DEF Sound, Connections, Party
  <2>2. Len(backlog') = 0 /\ t_client' \notin Party
    BY <1>1, <1>2, EmptySeq, TCPServerAssumption
  <2> QED BY <2>1, <2>2 DEF Connections
<1>4. FilePlace' /\ TCP_SessionHoldsPrefix'
  BY <1>1 DEF FilePlace, TCP_SessionHoldsPrefix, Sound
<1>5. ASSUME NEW x \in Client
      PROVE  ClientPlace(x)' /\ OnTheWay(x)' /\ TrueRCVD(x)'
  <2>1. ClientPlace(x) /\ OnTheWay(x) /\ TrueRCVD(x) /\ x \in Party
    BY DEF Sound, ClientsSound, Party
  <2>2. x # t_client /\ ItemsRead(x)' = ItemsRead(x)
    BY <1>1, <2>1, TCPServerAssumption DEF ItemsRead
  <2>3. OnTheWay(x)'
    <3>1. CASE up'[x] = up[x] /\ link'[x] = link[x]
      BY <2>1, <2>2, <3>1, OnTheWayStays
    <3>2. CASE link'[x] = "reset"
      BY <3>2 DEF OnTheWay
    <3> QED BY <1>2, <2>1, <3>1, <3>2
  <2>4. TrueRCVD(x)'
    BY <1>1, <1>2, <2>1 DEF TrueRCVD, WholeFileDelivered
  <2> QED BY <2>1, <2>3, <2>4, ClientPlaceStays
<1>6. TCP_SuccessMeansDelivered'
  BY <1>1, SuccessStays DEF Sound
<1> QED BY <1>3, <1>4, <1>5, <1>6 DEF Sound, ClientsSound

\* Nothing that the safety properties speak of changes.
LEMMA NothingChanges ==
  ASSUME Sound, UNCHANGED <<up, down, backlog, link, t_pc, t_client,
                            session_vars, delivered, tcp_client_vars>>
  PROVE  Sound'
<1>1. /\ UNCHANGED <<up, down, backlog, link, t_pc, t_client, delivered>>
      /\ UNCHANGED session_vars /\ UNCHANGED tcp_client_vars
  OBVIOUS
<1>2. Connections' /\ FilePlace' /\ TCP_SessionHoldsPrefix'
  BY <1>1 DEF Sound, Connections, FilePlace, TCP_SessionHoldsPrefix, session_vars,
     BytesIn, OffsetOf, Beginning
<1>3. ASSUME NEW x \in Client
      PROVE  ClientPlace(x)' /\ OnTheWay(x)' /\ TrueRCVD(x)'
  <2>1. ClientPlace(x) /\ OnTheWay(x) /\ TrueRCVD(x)
    BY DEF Sound, ClientsSound
  <2>2. ItemsRead(x)' = ItemsRead(x)
    BY <1>1 DEF ItemsRead, session_vars, StartOf, OffsetOf
  <2>3. TrueRCVD(x)'
    BY <1>1, <2>1 DEF TrueRCVD, WholeFileDelivered
  <2> QED BY <1>1, <2>1, <2>2, <2>3, ClientPlaceStays, OnTheWayStays
<1>4. TCP_SuccessMeansDelivered'
  BY <1>1, SuccessStays DEF Sound
<1> QED BY <1>2, <1>3, <1>4 DEF Sound, ClientsSound

LEMMA ServerStepSound ==
  ASSUME TCP_TypeOK, SessionPlace, Sound, ServerStep \/ ServerInterrupted
  PROVE  Sound'
<1>c. UNCHANGED tcp_client_vars
  BY DEF ServerStep, ServerInterrupted
<1>1. ASSUME NEW c \in Party, EndOfStream(c) \/ TCP_ServerTimeout(c)
                                 \/ SigintInSession(c)
      PROVE  Sound'
  BY <1>1, <1>c, ReadFailsSound
     DEF EndOfStream, TCP_ServerTimeout, SigintInSession
<1>2. CASE SigintBetweenCalls
  BY <1>2, <1>c, NothingChanges DEF SigintBetweenCalls, stream_vars
<1> QED BY <1>1, <1>2, <1>c, WaitForClientSound, ServerReadsSound,
           SigintInAcceptSound DEF ServerStep, ServerInterrupted

-----------------------------------------------------------------------------
(* The steps of the clients and of the other programs.                     *)

LEMMA ServerUntouched ==
  ASSUME Sound, UNCHANGED tcp_server_vars
  PROVE  /\ FilePlace' /\ TCP_SessionHoldsPrefix'
         /\ \A x \in Client :
              /\ ItemsRead(x)' = ItemsRead(x)
              /\ WholeFileDelivered(x)' <=> WholeFileDelivered(x)
<1>1. /\ UNCHANGED <<t_pc, t_client, t_conn, t_packet_id, t_bytes_received>>
      /\ UNCHANGED <<t_rest, t_received, delivered>>
  BY DEF tcp_server_vars
<1>2. FilePlace' /\ TCP_SessionHoldsPrefix'
  BY <1>1 DEF Sound, FilePlace, TCP_SessionHoldsPrefix, BytesIn, OffsetOf,
     Beginning
<1>3. \A x \in Client : ItemsRead(x)' = ItemsRead(x)
  BY <1>1 DEF ItemsRead, StartOf, OffsetOf
<1>4. \A x \in Client : WholeFileDelivered(x)' <=> WholeFileDelivered(x)
  BY <1>1 DEF WholeFileDelivered, Beginning
<1> QED BY <1>2, <1>3, <1>4

\* Client c acts, and the others stay as they are.
LEMMA OneClientActs ==
  ASSUME TCP_TypeOK, Sound, NEW c \in Client, UNCHANGED tcp_server_vars,
         \A x \in Client \ {c} :
           /\ c_pc'[x] = c_pc[x] /\ c_package_id'[x] = c_package_id[x]
           /\ c_bytes_sent'[x] = c_bytes_sent[x] /\ c_written'[x] = c_written[x]
           /\ up'[x] = up[x] /\ link'[x] = link[x],
         DownFrom(c, <<>>),
         Connections', ClientPlace(c)', OnTheWay(c)',
         c_pc'[c] = "done" => WholeFileDelivered(c)
  PROVE  Sound'
<1>1. /\ FilePlace' /\ TCP_SessionHoldsPrefix'
      /\ \A x \in Client :
           /\ ItemsRead(x)' = ItemsRead(x)
           /\ WholeFileDelivered(x)' <=> WholeFileDelivered(x)
  BY ServerUntouched
<1>2. ASSUME NEW x \in Client
      PROVE  TrueRCVD(x)'
  <2> DEFINE none == <<>>
  <2>1. Len(none) = 0 /\ DownFrom(c, none) /\ delivered \subseteq delivered'
    BY EmptySeq DEF tcp_server_vars
  <2>2. TrueRCVD(x)
    BY DEF Sound, ClientsSound
  <2> HIDE DEF none
  <2>3. \A j \in 1 .. Len(none) :
          none[j] = Answer("RCVD", SessionId[x]) => WholeFileDelivered(x)'
    BY <2>1
  <2> QED BY <2>1, <2>2, <2>3, DownTrue
<1>3. ASSUME NEW x \in Client, x # c
      PROVE  ClientPlace(x)' /\ OnTheWay(x)'
  <2>1. ClientPlace(x) /\ OnTheWay(x)
    BY DEF Sound, ClientsSound
  <2>2. ClientPlace(x)'
    BY <1>3, <2>1 DEF ClientPlace, OffsetOf
  <2>3. ItemsWritten(x)' = ItemsWritten(x)
    BY <1>3 DEF ItemsWritten, StartOf
  <2>4. OnTheWay(x)'
    BY <1>1, <1>3, <2>1, <2>3 DEF OnTheWay, IsItem, PacketItem, BytesIn,
       OffsetOf, StartOf
  <2> QED BY <2>2, <2>4
<1>4. TCP_SuccessMeansDelivered'
  BY <1>1 DEF Sound, TCP_SuccessMeansDelivered
<1> QED BY <1>1, <1>2, <1>3, <1>4 DEF Sound, ClientsSound

LEMMA ConnectionsGrow ==
  ASSUME TCP_TypeOK, Sound, NEW c \in Party, Connect(c), UNCHANGED t_client
  PROVE  Connections'
<1>1. /\ link[c] = "none" /\ link'[c] = "open"
      /\ \A x \in Party \ {c} : link'[x] = link[x]
      /\ UNCHANGED <<up, down>>
      /\ Len(backlog') = Len(backlog) + 1
      /\ backlog'[Len(backlog) + 1] = c
      /\ \A i \in 1 .. Len(backlog) : backlog'[i] = backlog[i]
  BY ConnectFacts DEF TCP_TypeOK
<1>2. /\ Len(backlog) \in Nat
      /\ \A i \in 1 .. Len(backlog) : backlog[i] \in Party
  BY LenProperties, ElementOfSeq DEF TCP_TypeOK, TypeOKStreams
<1>3. /\ \A i \in 1 .. Len(backlog) :
           /\ link[backlog[i]] = "open" /\ backlog[i] # t_client
           /\ \A j \in 1 .. Len(backlog) : backlog[i] = backlog[j] => i = j
      /\ t_client \in Party => link[t_client] = "open"
      /\ \A x \in Client : link[x] # "open" => up[x] = <<>>
  BY DEF Sound, Connections
<1>4. c # t_client /\ \A i \in 1 .. Len(backlog) : backlog[i] # c
  BY <1>1, <1>3
<1>5. \A i \in 1 .. Len(backlog') :
        \/ i \in 1 .. Len(backlog) /\ backlog'[i] = backlog[i]
        \/ i = Len(backlog) + 1 /\ backlog'[i] = c
  BY <1>1, <1>2
<1>6. ASSUME NEW i \in 1 .. Len(backlog')
      PROVE  /\ link'[backlog'[i]] = "open" /\ backlog'[i] # t_client'
             /\ \A j \in 1 .. Len(backlog') : backlog'[i] = backlog'[j] => i = j
  <2>1. link'[backlog'[i]] = "open" /\ backlog'[i] # t_client'
    BY <1>1, <1>2, <1>3, <1>4, <1>5
  <2>2. \A j \in 1 .. Len(backlog') : backlog'[i] = backlog'[j] => i = j
    BY <1>3, <1>4, <1>5
  <2> QED BY <2>1, <2>2
<1>7. /\ t_client' \in Party => link'[t_client'] = "open"
      /\ \A x \in Client : link'[x] # "open" => up'[x] = <<>>
  BY <1>1, <1>3, <1>4 DEF Party
<1> QED BY <1>6, <1>7 DEF Connections

LEMMA ConnectionsStay ==
  ASSUME TCP_TypeOK, Sound, NEW c \in Party, NEW unread, PartyCloses(c, unread),
         UNCHANGED t_client
  PROVE  Connections'
<1>1. /\ TypeOKStreams' /\ UNCHANGED <<backlog, link>>
      /\ \A x \in Party \ {c} : up'[x] = up[x]
      /\ Len(up'[c]) <= Len(up[c])
  BY PartyClosesFacts DEF TCP_TypeOK
<1>2. up[c] = <<>> => up'[c] = <<>>
  <2>1. /\ up'[c] \in Seq(Item) /\ Len(up'[c]) \in Nat
        /\ Len(<<>>) = 0
    BY <1>1, LenProperties, EmptySeq DEF TypeOKStreams
  <2>2. up[c] = <<>> => Len(up'[c]) = 0
    BY <1>1, <2>1
  <2> QED BY <2>1, <2>2, EmptySeq
<1>3. \A x \in Client : link'[x] # "open" => up'[x] = <<>>
  BY <1>1, <1>2 DEF Sound, Connections, Party
<1> QED BY <1>1, <1>3 DEF Sound, Connections

\* Client c writes the next item that it has to write.
LEMMA WriteSound ==
  ASSUME TCP_TypeOK, Sound, NEW c \in Client, NEW item \in Item, Write(c, item),
         UNCHANGED tcp_server_vars,
         \A x \in Client \ {c} :
           /\ c_pc'[x] = c_pc[x] /\ c_package_id'[x] = c_package_id[x]
           /\ c_bytes_sent'[x] = c_bytes_sent[x] /\ c_written'[x] = c_written[x],
         c_pc[c] \notin Ended, c_pc'[c] \notin Ended, ClientPlace(c)',
         ItemsWritten(c) \in Nat, ItemsWritten(c)' = ItemsWritten(c) + 1,
         IsItem(c, ItemsWritten(c) + 1, item)
  PROVE  Sound'
<1>1. c \in Party
  BY DEF Party
<1>2. /\ TypeOKStreams' /\ UNCHANGED <<down, backlog>>
      /\ \A x \in Party \ {c} : up'[x] = up[x] /\ link'[x] = link[x]
      /\ \/ link[c] = "open" /\ link' = link /\ up'[c] = Append(up[c], item)
         \/ /\ link[c] = "shut" /\ link'[c] \in {"shut", "reset"}
            /\ up'[c] = up[c]
  BY <1>1, WriteFacts DEF TCP_TypeOK
<1>3. Connections /\ OnTheWay(c)
  BY DEF Sound, ClientsSound
<1>b. \A i \in 1 .. Len(backlog) : backlog[i] \in Party
  BY ElementOfSeq DEF TCP_TypeOK, TypeOKStreams
<1>4. Connections'
  <2>1. UNCHANGED t_client
    BY DEF tcp_server_vars
  <2>2. \A x \in Party : link[x] = "open" => link'[x] = "open"
    BY <1>2
  <2>3. \A x \in Client : link'[x] # "open" => up'[x] = <<>>
    BY <1>2, <1>3 DEF Connections, Party
  <2> QED BY <1>2, <1>3, <1>b, <2>1, <2>2, <2>3 DEF Connections
<1>5. OnTheWay(c)'
  <2>1. CASE link[c] = "open" /\ link' = link /\ up'[c] = Append(up[c], item)
    <3>1. /\ Len(up[c]) \in Nat /\ Len(up'[c]) = Len(up[c]) + 1
          /\ \A i \in 1 .. Len(up[c]) : up'[c][i] = up[c][i]
          /\ up'[c][Len(up[c]) + 1] = item
      BY <1>1, <2>1, UpType, AppendProperties DEF TCP_TypeOK
    <3>2. ItemsRead(c) \in Int /\ ItemsRead(c)' = ItemsRead(c)
      BY ServerUntouched, ItemsReadType DEF Sound
    <3>3. /\ \A i \in 1 .. Len(up[c]) : IsItem(c, ItemsRead(c) + i, up[c][i])
          /\ ItemsRead(c) + Len(up[c]) = ItemsWritten(c)
      BY <1>3, <2>1 DEF OnTheWay
    <3>4. ASSUME NEW i \in 1 .. Len(up'[c])
          PROVE  IsItem(c, ItemsRead(c) + i, up'[c][i])
      <4>1. CASE i \in 1 .. Len(up[c])
        BY <3>1, <3>3, <4>1
      <4>2. CASE i = Len(up[c]) + 1
        <5>1. ItemsRead(c) + i = ItemsWritten(c) + 1
          BY <3>1, <3>2, <3>3, <4>2
        <5> QED BY <3>1, <4>2, <5>1
      <4> QED BY <3>1, <4>1, <4>2
    <3>5. ItemsRead(c)' + Len(up'[c]) = ItemsWritten(c)'
      BY <3>1, <3>2, <3>3
    <3> QED BY <3>2, <3>4, <3>5 DEF OnTheWay, IsItem, PacketItem, BytesIn,
               OffsetOf, StartOf
  <2>2. CASE link'[c] \in {"shut", "reset"}
    BY <2>2 DEF OnTheWay
  <2> QED BY <1>2, <2>1, <2>2
<1>6. DownFrom(c, <<>>)
  BY <1>2 DEF DownFrom
<1> QED BY <1>2, <1>4, <1>5, <1>6, OneClientActs DEF Party, Ended

LEMMA ClientConnectSound ==
  ASSUME TCP_TypeOK, Sound, NEW c \in Client, TCP_Connect(c),
         UNCHANGED tcp_server_vars
  PROVE  Sound'
<1>1. /\ c \in Party /\ Connect(c) /\ c_pc[c] = "connect" /\ c_pc'[c] = "CONN"
      /\ \A x \in Client \ {c} : c_pc'[x] = c_pc[x]
      /\ UNCHANGED <<c_package_id, c_bytes_sent, c_written>>
  BY DEF TCP_Connect, Goto, Progress, TCP_TypeOK, TypeOKTCPClient, Party
<1>2. /\ link[c] = "none"
      /\ \A x \in Party \ {c} : link'[x] = link[x]
      /\ UNCHANGED <<up, down>>
  BY <1>1, ConnectFacts DEF TCP_TypeOK
<1>3. Connections'
  BY <1>1, ConnectionsGrow DEF tcp_server_vars
<1>4. ClientPlace(c)'
  BY <1>1 DEF ClientPlace, Sound, ClientsSound
<1>5. OnTheWay(c)'
  <2>1. up'[c] = <<>> /\ c # t_client
    BY <1>1, <1>2 DEF Sound, Connections
  <2>2. ItemsRead(c)' = 0 /\ ItemsWritten(c)' = 0 /\ Len(up'[c]) = 0
    BY <1>1, <2>1, EmptySeq DEF ItemsRead, ItemsWritten, tcp_server_vars
  <2> QED BY <2>2 DEF OnTheWay
<1>6. DownFrom(c, <<>>)
  BY <1>2 DEF DownFrom
<1>7. c_pc'[c] # "done"
  BY <1>1
<1>8. \A x \in Client \ {c} : up'[x] = up[x] /\ link'[x] = link[x]
  BY <1>2 DEF Party
<1> QED BY <1>1, <1>3, <1>4, <1>5, <1>6, <1>7, <1>8, OneClientActs

LEMMA SendCONNSound ==
  ASSUME TCP_TypeOK, Sound, NEW c \in Client, TCP_client_send_CONN(c),
         UNCHANGED tcp_server_vars
  PROVE  Sound'
<1> DEFINE item == CONN(SessionId[c], occupied_size[c])
<1>1. /\ Write(c, item) /\ c_pc[c] = "CONN" /\ c_pc'[c] = "wait_CONACC"
      /\ \A x \in Client \ {c} : c_pc'[x] = c_pc[x]
      /\ UNCHANGED <<c_package_id, c_bytes_sent, c_written>>
  BY DEF TCP_client_send_CONN, Goto, Progress, TCP_TypeOK, TypeOKTCPClient
<1>2. c_package_id[c] = 0 /\ c_bytes_sent[c] = 0 /\ c_written[c] = 0
  BY <1>1 DEF Sound, ClientsSound, ClientPlace
<1>3. item \in Item
  BY ItemTypes DEF TCP_TypeOK
<1>4. StartOf(0) = 2
  BY Places
<1>5. ItemsWritten(c) = 0 /\ ItemsWritten(c)' = 1
  BY <1>1, <1>2, <1>4 DEF ItemsWritten, StartOf
<1>6. IsItem(c, ItemsWritten(c) + 1, item)
  BY <1>5 DEF IsItem
<1>7. ClientPlace(c)'
  BY <1>1, <1>2 DEF ClientPlace
<1>8. /\ c_pc[c] \notin Ended /\ c_pc'[c] \notin Ended
      /\ ItemsWritten(c) \in Nat /\ ItemsWritten(c)' = ItemsWritten(c) + 1
  BY <1>1, <1>5 DEF Ended
<1> HIDE DEF item
<1> QED BY <1>1, <1>3, <1>6, <1>7, <1>8, WriteSound

\* Where client c stands when it writes item w + 1 of a DATA structure.
LEMMA WritePlace ==
  ASSUME TCP_TypeOK, Sound, NEW c \in Client, c_pc[c] = "DATA"
  PROVE  LET id == c_package_id[c]
             w == c_written[c]
         IN  /\ id \in Nat /\ w \in 0 .. SEND_BUFF_SIZE
             /\ c_bytes_sent[c] = OffsetOf(id)
             /\ OffsetOf(id) < occupied_size[c]
             /\ shift(c) = BytesIn(c, id)
             /\ ItemsWritten(c) = StartOf(id) - 1 + w
             /\ StartOf(id) \in Nat /\ StartOf(id) >= 2
             /\ ItemsWritten(c) \in Nat
             /\ Structure(c, w + 1) \in Item
             /\ IsItem(c, ItemsWritten(c) + 1, Structure(c, w + 1))
<1> DEFINE id == c_package_id[c]
           w == c_written[c]
<1>1. id \in Nat /\ w \in 0 .. SEND_BUFF_SIZE /\ SEND_BUFF_SIZE \in Nat
  BY TCPClientAssumption DEF TCP_TypeOK, TypeOKTCPClient
<1>2. c_bytes_sent[c] = OffsetOf(id) /\ OffsetOf(id) < occupied_size[c]
  BY DEF Sound, ClientsSound, ClientPlace
<1>3. shift(c) = BytesIn(c, id)
  BY <1>2 DEF shift, BytesIn
<1>4. StartOf(id) \in Nat /\ StartOf(id) >= 2 /\ OffsetOf(id) \in Nat
  BY <1>1, Places
<1>5. ItemsWritten(c) = StartOf(id) - 1 + w
  BY DEF ItemsWritten
<1>6. ItemsWritten(c) \in Nat /\ ItemsWritten(c) + 1 = StartOf(id) + w
  <2> HIDE DEF id, w
  <2> QED BY <1>1, <1>4, <1>5
<1>7. Structure(c, w + 1) = PacketItem(c, id, w)
  <2>1. BytesIn(c, id) \in Nat
    BY <1>1, <1>2, PieceFacts
  <2>2. CASE w = 0
    <3>1. Structure(c, w + 1) = DATA(SessionId[c], id, shift(c))
      BY <2>2 DEF Structure
    <3> QED BY <1>3, <2>2, <3>1 DEF PacketItem
  <2>3. CASE w # 0
    <3>1. /\ w + 1 # 1
          /\ w + 1 <= 1 + BytesIn(c, id) <=> w <= BytesIn(c, id)
          /\ OffsetOf(id) + (w + 1) - 2 = OffsetOf(id) + w - 1
      BY <1>1, <1>4, <2>1, <2>3
    <3>2. Structure(c, w + 1) =
            IF w <= BytesIn(c, id) THEN Byte(c, OffsetOf(id) + (w + 1) - 2)
            ELSE Padding
      <4> HIDE DEF w
      <4> QED BY <1>2, <1>3, <3>1 DEF Structure
    <3> HIDE DEF id, w
    <3> QED BY <2>3, <3>1, <3>2 DEF PacketItem
  <2> QED BY <2>2, <2>3
<1>8. IsItem(c, ItemsWritten(c) + 1, Structure(c, w + 1))
  <2>1. id \in 0 .. occupied_size[c]
    BY <1>1, <1>2, PieceFacts
  <2> HIDE DEF id, w
  <2> QED BY <1>1, <1>6, <1>7, <2>1 DEF IsItem
<1>9. Structure(c, w + 1) \in Item
  <2>1. w + 1 \in Nat /\ w + 1 > 0
    BY <1>1
  <2> HIDE DEF w
  <2> QED BY <2>1, ItemTypes DEF TCP_TypeOK
<1> QED BY <1>1, <1>2, <1>3, <1>4, <1>5, <1>6, <1>8, <1>9

LEMMA WritePartSound ==
  ASSUME TCP_TypeOK, Sound, NEW c \in Client, TCP_WritePart(c),
         UNCHANGED tcp_server_vars
  PROVE  Sound'
<1> DEFINE item == Structure(c, c_written[c] + 1)
<1>1. /\ Write(c, item) /\ c_pc[c] = "DATA"
      /\ c_written'[c] = c_written[c] + 1
      /\ \A x \in Client \ {c} : c_written'[x] = c_written[x]
      /\ UNCHANGED <<c_pc, c_package_id, c_bytes_sent>>
  BY DEF TCP_WritePart, TCP_TypeOK, TypeOKTCPClient
<1>2. /\ c_written[c] \in Nat
      /\ ItemsWritten(c) = StartOf(c_package_id[c]) - 1 + c_written[c]
      /\ StartOf(c_package_id[c]) \in Nat
      /\ ItemsWritten(c) \in Nat /\ item \in Item
      /\ IsItem(c, ItemsWritten(c) + 1, item)
  BY <1>1, WritePlace
<1> HIDE DEF item
<1>3. ItemsWritten(c)' = ItemsWritten(c) + 1
  <2>1. ItemsWritten(c)' = StartOf(c_package_id[c]) - 1 + (c_written[c] + 1)
    BY <1>1 DEF ItemsWritten, StartOf
  <2> QED BY <1>2, <2>1
<1>4. ClientPlace(c)'
  BY <1>1 DEF ClientPlace, OffsetOf, Sound, ClientsSound
<1>5. c_pc[c] \notin Ended /\ c_pc'[c] \notin Ended
  BY <1>1 DEF Ended
<1> QED BY <1>1, <1>2, <1>3, <1>4, <1>5, WriteSound

LEMMA WriteLastSound ==
  ASSUME TCP_TypeOK, Sound, NEW c \in Client, TCP_WriteLast(c),
         UNCHANGED tcp_server_vars
  PROVE  Sound'
<1> DEFINE item == Structure(c, SEND_BUFF_SIZE + 1)
           id == c_package_id[c]
<1>1. /\ Write(c, item) /\ c_pc[c] = "DATA"
      /\ c_written[c] = SEND_BUFF_SIZE
      /\ c_written'[c] = 0 /\ c_package_id'[c] = id + 1
      /\ c_bytes_sent'[c] = c_bytes_sent[c] + shift(c)
      /\ c_pc'[c] = AfterBytes(c, c_bytes_sent[c] + shift(c))
      /\ \A x \in Client \ {c} :
           /\ c_pc'[x] = c_pc[x] /\ c_package_id'[x] = c_package_id[x]
           /\ c_bytes_sent'[x] = c_bytes_sent[x] /\ c_written'[x] = c_written[x]
  BY DEF TCP_WriteLast, Goto, TCP_TypeOK, TypeOKTCPClient
<1>2. /\ id \in Nat
      /\ c_bytes_sent[c] = OffsetOf(id) /\ OffsetOf(id) < occupied_size[c]
      /\ shift(c) = BytesIn(c, id)
      /\ ItemsWritten(c) = StartOf(id) - 1 + SEND_BUFF_SIZE
      /\ StartOf(id) \in Nat
      /\ ItemsWritten(c) \in Nat /\ item \in Item
      /\ IsItem(c, ItemsWritten(c) + 1, item)
  BY <1>1, WritePlace
<1>3. /\ SEND_BUFF_SIZE \in Nat
      /\ OffsetOf(id + 1) = OffsetOf(id) + SEND_BUFF_SIZE
      /\ StartOf(id + 1) = StartOf(id) + SEND_BUFF_SIZE + 1
      /\ BytesIn(c, id) \in 1 .. SEND_BUFF_SIZE
      /\ OffsetOf(id) + BytesIn(c, id) <= occupied_size[c]
      /\ OffsetOf(id) + BytesIn(c, id) < occupied_size[c] =>
           BytesIn(c, id) = SEND_BUFF_SIZE
      /\ OffsetOf(id) \in Nat /\ occupied_size[c] \in Nat
  BY <1>2, Places, PieceFacts, TCPClientAssumption
<1> HIDE DEF item, id
<1>4. c_pc'[c] \in {"DATA", "wait_RCVD"}
  BY <1>1 DEF AfterBytes
<1>5. ItemsWritten(c)' = ItemsWritten(c) + 1
  <2>1. ItemsWritten(c)' = StartOf(id + 1) - 1 + 0
    BY <1>1, <1>4 DEF ItemsWritten, StartOf
  <2> QED BY <1>2, <1>3, <2>1
<1>6. ClientPlace(c)'
  <2>1. ASSUME c_pc'[c] = "DATA"
        PROVE  /\ c_bytes_sent'[c] < occupied_size[c]
               /\ c_bytes_sent'[c] = OffsetOf(id + 1)
    <3>1. c_bytes_sent'[c] = OffsetOf(id) + BytesIn(c, id)
      BY <1>1, <1>2
    <3>2. OffsetOf(id) + BytesIn(c, id) # occupied_size[c]
      BY <1>1, <1>2, <2>1 DEF AfterBytes
    <3> QED BY <1>3, <3>1, <3>2
  <2> QED BY <1>1, <1>4, <2>1 DEF ClientPlace, OffsetOf
<1>7. c_pc[c] \notin Ended /\ c_pc'[c] \notin Ended
  BY <1>1, <1>4 DEF Ended
<1> QED BY <1>1, <1>2, <1>5, <1>6, <1>7, WriteSound

LEMMA CheckCONACCSound ==
  ASSUME TCP_TypeOK, Sound, NEW c \in Client, NEW item, check_CONACC(c, item),
         UNCHANGED tcp_server_vars
  PROVE  Sound'
<1>1. /\ c \in Party /\ Receive(c, item)
      /\ c_pc[c] = "wait_CONACC" /\ c_pc'[c] = AfterBytes(c, 0)
      /\ \A x \in Client \ {c} : c_pc'[x] = c_pc[x]
      /\ UNCHANGED <<c_package_id, c_bytes_sent, c_written>>
  BY DEF check_CONACC, Goto, Progress, TCP_TypeOK, TypeOKTCPClient, Party
<1>2. UNCHANGED <<up, backlog, link>> /\ DownFrom(c, <<>>)
  BY <1>1, ReceiveFacts DEF TCP_TypeOK
<1>3. c_pc'[c] \in {"DATA", "wait_RCVD"}
  BY <1>1 DEF AfterBytes
<1>4. Connections'
  BY <1>2 DEF Sound, Connections, tcp_server_vars
<1>5. c_package_id[c] = 0 /\ c_bytes_sent[c] = 0 /\ c_written[c] = 0
  BY <1>1 DEF Sound, ClientsSound, ClientPlace
<1>6. ClientPlace(c)'
  <2>1. c_pc'[c] = "DATA" => 0 < occupied_size[c]
    BY <1>1, TCPClientAssumption DEF AfterBytes
  <2>2. OffsetOf(0) = 0
    BY Places
  <2> QED BY <1>1, <1>3, <1>5, <2>1, <2>2 DEF ClientPlace, OffsetOf
<1>7. OnTheWay(c)'
  <2>1. ItemsRead(c)' = ItemsRead(c)
    BY ServerUntouched
  <2>2. ItemsWritten(c)' = ItemsWritten(c)
    BY <1>1, <1>3 DEF ItemsWritten, StartOf
  <2>3. OnTheWay(c) /\ c_pc[c] \notin Ended
    BY <1>1 DEF Sound, ClientsSound, Ended
  <2> QED BY <1>2, <2>1, <2>2, <2>3 DEF OnTheWay, IsItem, PacketItem, BytesIn,
             OffsetOf, StartOf
<1>8. c_pc'[c] # "done"
  BY <1>3
<1> QED BY <1>1, <1>2, <1>4, <1>6, <1>7, <1>8, OneClientActs

LEMMA LeavesSound ==
  ASSUME TCP_TypeOK, Sound, NEW c \in Client, Leaves(c),
         UNCHANGED tcp_server_vars
  PROVE  Sound'
<1>1. PICK outcome \in Ended, unread \in {down[c], Tail(down[c])} :
        /\ Leave(c, outcome, unread)
        /\ c_pc[c] \notin Ended
        /\ outcome = "done" =>
             \E i \in 1 .. Len(down[c]) : down[c][i] = Answer("RCVD", SessionId[c])
  BY DEF Leaves
<1>2. /\ c \in Party /\ PartyCloses(c, unread) /\ c_pc'[c] = outcome
      /\ \A x \in Client \ {c} : c_pc'[x] = c_pc[x]
      /\ UNCHANGED <<c_package_id, c_bytes_sent, c_written>>
  BY <1>1 DEF Leave, Goto, Progress, TCP_TypeOK, TypeOKTCPClient, Party
<1>3. /\ TypeOKStreams' /\ UNCHANGED <<backlog, link>>
      /\ \A x \in Party \ {c} : up'[x] = up[x]
      /\ Len(up'[c]) <= Len(up[c])
      /\ \A i \in 1 .. Len(up'[c]) : up'[c][i] = up[c][i]
      /\ DownFrom(c, <<>>)
  BY <1>2, PartyClosesFacts DEF TCP_TypeOK
<1>4. Connections'
  BY <1>2, ConnectionsStay DEF tcp_server_vars
<1>5. ClientPlace(c)'
  BY <1>1, <1>2 DEF ClientPlace, Ended
<1>6. OnTheWay(c)'
  <2>1. ItemsRead(c)' = ItemsRead(c) /\ OnTheWay(c)
    BY ServerUntouched DEF Sound, ClientsSound
  <2>2. Len(up[c]) \in Nat /\ Len(up'[c]) \in Nat
    BY <1>2, <1>3, LenProperties DEF TCP_TypeOK, TypeOKStreams
  <2>3. \A i \in 1 .. Len(up'[c]) : i \in 1 .. Len(up[c])
    BY <1>3, <2>2
  <2>4. link[c] = "open" => \A i \in 1 .. Len(up'[c]) :
          IsItem(c, ItemsRead(c) + i, up'[c][i])
    BY <1>3, <2>1, <2>3 DEF OnTheWay
  <2>5. c_pc'[c] \in Ended
    BY <1>2
  <2> QED BY <1>3, <2>1, <2>4, <2>5 DEF OnTheWay, IsItem, PacketItem, BytesIn,
             OffsetOf, StartOf
<1>7. c_pc'[c] = "done" => WholeFileDelivered(c)
  BY <1>1, <1>2 DEF Sound, ClientsSound, TrueRCVD
<1>8. \A x \in Client \ {c} : up'[x] = up[x] /\ link'[x] = link[x]
  BY <1>3 DEF Party
<1> QED BY <1>2, <1>3, <1>4, <1>5, <1>6, <1>7, <1>8, OneClientActs

LEMMA PeerStepSound ==
  ASSUME TCP_TypeOK, Sound, NEW p \in Peer, PeerStep(p)
  PROVE  Sound'
<1>1. /\ UNCHANGED tcp_server_vars /\ UNCHANGED tcp_client_vars
      /\ p \in Party /\ p \notin Client
  BY StreamAssumption DEF PeerStep, Party
<1>2. Connect(p) \/ PartyCloses(p, down[p])
  BY DEF PeerStep, PeerLeaves
<1>3. Connections'
  BY <1>1, <1>2, ConnectionsGrow, ConnectionsStay DEF tcp_server_vars
<1>4. /\ \A x \in Party \ {p} : up'[x] = up[x] /\ link'[x] = link[x]
      /\ DownFrom(p, <<>>)
  <2>1. CASE Connect(p)
    BY <1>1, <2>1, ConnectFacts DEF TCP_TypeOK, DownFrom
  <2>2. CASE PartyCloses(p, down[p])
    BY <1>1, <2>2, PartyClosesFacts DEF TCP_TypeOK
  <2> QED BY <1>2, <2>1, <2>2
<1>5. /\ FilePlace' /\ TCP_SessionHoldsPrefix'
      /\ \A x \in Client : ItemsRead(x)' = ItemsRead(x)
      /\ delivered \subseteq delivered'
  BY <1>1, ServerUntouched DEF tcp_server_vars
<1>6. ASSUME NEW x \in Client
      PROVE  ClientPlace(x)' /\ OnTheWay(x)' /\ TrueRCVD(x)'
  <2>1. ClientPlace(x) /\ OnTheWay(x) /\ TrueRCVD(x) /\ x # p /\ x \in Party
    BY <1>1 DEF Sound, ClientsSound, Party
  <2>2. TrueRCVD(x)'
    BY <1>4, <1>5, <2>1, DownTrue
  <2> QED BY <1>1, <1>4, <1>5, <2>1, <2>2, ClientPlaceStays, OnTheWayStays
<1>7. TCP_SuccessMeansDelivered'
  BY <1>1, <1>5, SuccessStays DEF Sound
<1> QED BY <1>3, <1>5, <1>6, <1>7 DEF Sound, ClientsSound

-----------------------------------------------------------------------------
(* The invariant.                                                          *)

LEMMA SoundInit ==
  ASSUME Init
  PROVE  Sound
<1>1. TCP_TypeOK
  BY TypeInit
<1>2. /\ t_pc = "accept" /\ t_client = Nobody /\ delivered = {}
      /\ Nobody \notin Party
  BY TCPServerAssumption DEF Init, InitTCPServer
<1>3. /\ backlog = <<>> /\ Len(backlog) = 0
      /\ \A x \in Party : link[x] = "none" /\ down[x] = <<>>
      /\ \A x \in Client : up[x] = <<>>
  BY EmptySeq, StreamAssumption DEF Init, InitStreams, Party
<1>4. \A x \in Client :
        /\ c_pc[x] \in {"failed", "connect"}
        /\ c_package_id[x] = 0 /\ c_bytes_sent[x] = 0 /\ c_written[x] = 0
  BY DEF Init, InitTCPClient
<1>5. Connections
  BY <1>2, <1>3 DEF Connections
<1>6. FilePlace /\ TCP_SessionHoldsPrefix
  BY <1>2 DEF FilePlace, TCP_SessionHoldsPrefix
<1>7. ClientsSound
  BY <1>3, <1>4, EmptySeq DEF ClientsSound, ClientPlace, OnTheWay, TrueRCVD, Party
<1>8. TCP_SuccessMeansDelivered
  BY <1>4 DEF TCP_SuccessMeansDelivered
<1> QED BY <1>5, <1>6, <1>7, <1>8 DEF Sound

LEMMA SoundStep ==
  ASSUME TCP_TypeOK, SessionPlace, Sound, [Next]_vars
  PROVE  Sound'
<1>1. ASSUME NEW c \in Client, ClientStep(c) \/ ClientKilled(c)
      PROVE  Sound'
  <2>1. TCP_ClientStep(c) \/ Killed(c)
    BY <1>1 DEF ClientStep, ClientKilled
  <2>2. UNCHANGED tcp_server_vars
    BY <1>1 DEF ClientStep, ClientKilled
  <2> QED BY <2>1, <2>2, ClientStepCases, ClientConnectSound, SendCONNSound,
             WritePartSound, WriteLastSound, CheckCONACCSound, LeavesSound
<1>2. CASE UNCHANGED vars
  <2>1. UNCHANGED <<up, down, backlog, link, t_pc, t_client, session_vars,
                    delivered, tcp_client_vars>>
    BY <1>2 DEF vars, stream_vars, tcp_server_vars, session_vars
  <2> QED BY <2>1, NothingChanges
<1> QED BY <1>1, <1>2, PeerStepSound, ServerStepSound DEF Next

\* Whatever the clients, the other programs, the signals and the network do, what
\* is under way on a client's connection is what it has written of its packets and
\* the server has not read.
THEOREM TCP_InductiveInvariant == Spec => []TCP_Inductive
<1>1. Init => TCP_Inductive
  BY TypeInit, SoundInit, InductiveParts
<1>2. TCP_Inductive /\ [Next]_vars => TCP_Inductive'
  <2> SUFFICES ASSUME TCP_Inductive, [Next]_vars
               PROVE  TCP_Inductive'
    OBVIOUS
  <2>1. TCP_TypeOK /\ SessionPlace /\ Sound
    BY InductiveParts
  <2>2. TCP_TypeOK' /\ SessionPlace' /\ Sound'
    BY <2>1, TypeStep, SoundStep
  <2> QED BY <2>2 DEF TCP_Inductive, Sound, ClientsSound
<1> QED BY <1>1, <1>2, PTL DEF Spec

\* A client that reports success has had its whole file read by the server.
THEOREM TCP_SuccessIsDelivery == Spec => []TCP_SuccessMeansDelivered
<1>1. TCP_Inductive => TCP_SuccessMeansDelivered
  BY DEF TCP_Inductive
<1> QED BY <1>1, TCP_InductiveInvariant, PTL

\* What a session holds is a beginning of its client's file, and after an RCVD the
\* whole file.
THEOREM TCP_SessionIsPrefix == Spec => []TCP_SessionHoldsPrefix
<1>1. TCP_Inductive => TCP_SessionHoldsPrefix
  BY DEF TCP_Inductive
<1> QED BY <1>1, TCP_InductiveInvariant, PTL

=============================================================================
