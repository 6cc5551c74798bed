--------------------------- MODULE EcRelayProofs ----------------------------
(* Proofs about EcRelay, for any commands, sizes and number of invokes.    *)
EXTENDS EcRelay, SequenceTheorems, FiniteSetTheorems, WellFoundedInduction, TLAPS

-----------------------------------------------------------------------------
(* Messages.                                                               *)

\* What invoke makes of a response is success or one of its errors.
LEMMA ParseType ==
  ASSUME NEW command, NEW h
  PROVE  parse_response(command, h) \in EcRelayError \cup {"Ok"}
BY DEF parse_response, validate_response, take_array, EcRelayError

\* An answer of the EC is a header, with the number of the request.
LEMMA AnswerType ==
  ASSUME NEW kind \in Kind, NEW discriminant \in Discriminant, NEW call \in Call
  PROVE  /\ AnswerTo(kind, discriminant, call) \in Header
         /\ AnswerTo(kind, discriminant, call).n = call.n
<1>1. /\ call.command.service_id \in Nat /\ call.command.response_id \in Nat
      /\ call.n \in Nat
  BY CommandAssumption DEF Call
<1>2. kind \in AnswerKind
  BY KindAssumption
<1>3. (CASE kind = "headless" -> "none"
         [] kind \in {"short", "long"} -> kind
         [] OTHER -> "exact") \in BodyLen
  BY DEF BodyLen
<1> QED BY <1>1, <1>3, DiscriminantAssumption DEF AnswerTo, Header

\* A frame is a sequence of bytes of one header, the END flag last.
LEMMA FrameType ==
  ASSUME NEW h \in Header
  PROVE  /\ Frame(h) \in Seq(Byte) /\ Len(Frame(h)) = FrameLen
         /\ \A i \in 1 .. FrameLen :
              /\ Frame(h)[i].frame = h
              /\ SERIAL_END_FLAG(Frame(h)[i]) <=> i = FrameLen
BY SizesAssumption DEF Frame, Byte, SERIAL_END_FLAG

\* The code that Remote carries is a number.
LEMMA RemoteType ==
  ASSUME NEW code, NEW h \in Header
  PROVE  RemoteCode(code, h) \in Nat
BY DEF RemoteCode, Header

\* What a byte carries.
LEMMA ByteFields ==
  ASSUME NEW b \in Byte
  PROVE  b.frame \in Header /\ b.frame.n \in Nat /\ b.frame.body \in BodyLen
BY DEF Byte, Header

-----------------------------------------------------------------------------
(* Types.                                                                  *)

LEMMA TypeStep ==
  ASSUME TypeOK, [Next]_vars
  PROVE  TypeOK'
<1> USE SizesAssumption
<1>0. /\ pc \in {"idle", "send", "recv"} /\ request \in Call
      /\ buf \in Seq(Byte) /\ Len(buf) <= RX_PACKET_LEN
      /\ polls \in 1 .. RX_POLL_BUDGET
      /\ result \in [code : EcRelayError \cup {"Ok", "None"}, n : Nat,
                     body : BodyLen, remote : Nat]
      /\ ec \in Seq(Call) /\ line \in Seq(Byte) /\ rx_fifo \in Seq(Byte)
      /\ tx_full \in BOOLEAN /\ gave_up \in Nat
  BY DEF TypeOK
<1>a. /\ <<>> \in Seq(Byte) /\ Len(<<>>) <= RX_PACKET_LEN
      /\ RX_POLL_BUDGET \in 1 .. RX_POLL_BUDGET
  BY EmptySeq
<1>b. \A code \in EcRelayError \cup {"Ok", "None"}, n \in Nat, body \in BodyLen,
         remote \in Nat :
        [code |-> code, n |-> n, body |-> body, remote |-> remote] \in
          [code : EcRelayError \cup {"Ok", "None"}, n : Nat, body : BodyLen, remote : Nat]
  OBVIOUS
<1>c. "none" \in BodyLen
  BY DEF BodyLen
<1>1. CASE UNCHANGED vars
  BY <1>1, <1>0 DEF vars, relay, world, TypeOK
<1>2. ASSUME NEW command \in Command, invoke_request(command)
      PROVE  TypeOK'
  <2>1. request' \in Call /\ result' \in [code : EcRelayError \cup {"Ok", "None"},
                                          n : Nat, body : BodyLen, remote : Nat]
    BY <1>0, <1>2, <1>c DEF invoke_request, Call, NoResult
  <2> QED BY <1>0, <1>2, <2>1 DEF invoke_request, world, TypeOK
<1>3. CASE send_packet
  <2>1. ec' \in Seq(Call)
    BY <1>0, <1>3, AppendProperties DEF send_packet
  <2> QED BY <1>0, <1>a, <1>3, <2>1 DEF send_packet, TypeOK
<1>4. ASSUME NEW code \in EcRelayError, GiveUp(code) PROVE TypeOK'
  BY <1>0, <1>a, <1>b, <1>c, <1>4 DEF GiveUp, Return, world, TypeOK
<1>5. CASE poll_empty
  <2>1. CASE polls > 1 /\ polls' = polls - 1
             /\ UNCHANGED <<pc, request, buf, result, gave_up, world>>
    BY <1>0, <2>1 DEF world, TypeOK
  <2>2. CASE GiveUp("TransportReadTimeout")
    BY <1>4, <2>2 DEF EcRelayError
  <2> QED BY <1>5, <2>1, <2>2 DEF poll_empty
<1>6. CASE rx_packet_full
  BY <1>4, <1>6 DEF rx_packet_full, EcRelayError
<1>7. CASE read_byte
  <2> DEFINE byte == Head(rx_fifo)
             packet == Append(buf, byte)
  <2>1. byte \in Byte /\ rx_fifo' \in Seq(Byte)
    BY <1>0, <1>7, HeadTailProperties DEF read_byte
  <2>2. packet \in Seq(Byte) /\ Len(packet) <= RX_PACKET_LEN
    <3>1. Len(buf) \in Nat /\ ~(Len(buf) >= RX_PACKET_LEN)
      BY <1>0, <1>7 DEF read_byte, buffer_full
    <3>2. packet \in Seq(Byte) /\ Len(packet) = Len(buf) + 1
      BY <1>0, <2>1, AppendProperties
    <3> QED BY <3>1, <3>2
  <2> HIDE DEF packet
  <2>3. UNCHANGED <<request, gave_up, ec, line, tx_full>>
    BY <1>7 DEF read_byte
  <2>4. CASE buf' = packet /\ polls' = RX_POLL_BUDGET /\ UNCHANGED <<pc, result>>
    BY <1>0, <1>a, <2>1, <2>2, <2>3, <2>4 DEF TypeOK
  <2>5. CASE Return("MctpDecode", 0, "none", 0)
    BY <1>0, <1>a, <1>b, <1>c, <2>1, <2>3, <2>5 DEF Return, TypeOK, EcRelayError
  <2>6. CASE LET code == parse_response(request.command, byte.frame) IN
             Return(code, byte.frame.n, byte.frame.body, RemoteCode(code, byte.frame))
    <3>1. /\ parse_response(request.command, byte.frame) \in EcRelayError \cup {"Ok"}
          /\ byte.frame.n \in Nat /\ byte.frame.body \in BodyLen
          /\ RemoteCode(parse_response(request.command, byte.frame), byte.frame) \in Nat
      BY <2>1, ParseType, ByteFields, RemoteType
    <3> QED BY <1>0, <1>a, <1>b, <2>1, <2>3, <2>6, <3>1 DEF Return, TypeOK
  <2> QED BY <1>7, <2>4, <2>5, <2>6 DEF read_byte, packet
<1>8. CASE EcAnswers
  <2>1. Head(ec) \in Call /\ ec' \in Seq(Call)
    BY <1>0, <1>8, HeadTailProperties DEF EcAnswers
  <2>2. PICK kind \in Kind, discriminant \in Discriminant :
      line' = line \o Frame(AnswerTo(kind, discriminant, Head(ec)))
    BY <1>8 DEF EcAnswers
  <2>3. line' \in Seq(Byte)
    BY <1>0, <2>1, <2>2, AnswerType, FrameType, ConcatProperties
  <2> QED BY <1>0, <1>8, <2>1, <2>3 DEF EcAnswers, relay, TypeOK
<1>9. CASE EcDrops
  <2>1. ec' \in Seq(Call)
    BY <1>0, <1>9, HeadTailProperties DEF EcDrops
  <2> QED BY <1>0, <1>9, <2>1 DEF EcDrops, relay, TypeOK
<1>10. CASE ByteArrives
  <2>1. Head(line) \in Byte /\ line' \in Seq(Byte)
    BY <1>0, <1>10, HeadTailProperties DEF ByteArrives
  <2>2. Append(rx_fifo, Head(line)) \in Seq(Byte)
    BY <1>0, <2>1, AppendProperties
  <2>3. rx_fifo' \in Seq(Byte)
    BY <1>0, <1>10, <2>2 DEF ByteArrives
  <2> QED BY <1>0, <1>10, <2>1, <2>3 DEF ByteArrives, relay, TypeOK
<1>11. CASE TxFills \/ TxDrains
  BY <1>0, <1>11 DEF TxFills, TxDrains, relay, TypeOK
<1> QED
  BY <1>1, <1>2, <1>3, <1>5, <1>6, <1>7, <1>8, <1>9, <1>10, <1>11
  DEF Next, Relay, World

LEMMA InitType ==
  ASSUME Init
  PROVE  TypeOK
<1>1. /\ <<>> \in Seq(Byte) /\ <<>> \in Seq(Call)
      /\ Len(<<>>) <= RX_PACKET_LEN
  BY SizesAssumption, EmptySeq
<1>2. request \in Call
  BY DEF Init, Call
<1>3. NoResult \in [code : EcRelayError \cup {"Ok", "None"}, n : Nat,
                    body : BodyLen, remote : Nat]
  BY DEF NoResult, BodyLen
<1>4. /\ buf \in Seq(Byte) /\ Len(buf) <= RX_PACKET_LEN
      /\ ec \in Seq(Call) /\ line \in Seq(Byte) /\ rx_fifo \in Seq(Byte)
  BY <1>1, Zenon DEF Init
<1>5. polls \in 1 .. RX_POLL_BUDGET /\ gave_up \in Nat /\ result = NoResult
      /\ pc = "idle" /\ tx_full = FALSE
  BY SizesAssumption DEF Init
<1> QED BY <1>2, <1>3, <1>4, <1>5, Zenon DEF TypeOK

\* The types hold; in particular rx_packet is never overrun.
THEOREM TypeCorrect == Spec => []TypeOK
BY InitType, TypeStep, PTL DEF Spec

-----------------------------------------------------------------------------
(* Numbers.                                                                *)

\* END flags that invokes have read: one each, unless it gave up.
EndsRead == (IF pc = "idle" THEN request.n ELSE request.n - 1) - gave_up

\* Bytes on their way: numbers do not fall, and rise after an END flag.
Before(b, c) ==
  /\ b.frame.n <= c.frame.n
  /\ SERIAL_END_FLAG(b) => b.frame.n < c.frame.n
Ordered(s) == \A i, j \in DOMAIN s : i < j => Before(s[i], s[j])

\* A number that is on its way is that of a request that was sent, and exceeds
\* the number of END flags read.
Sent(n) ==
  /\ EndsRead < n
  /\ n <= request.n
  /\ pc = "send" => n < request.n

InOrder ==
  /\ \A i \in DOMAIN ec : Sent(ec[i].n)
  /\ \A i, j \in DOMAIN ec : i < j => ec[i].n < ec[j].n
  /\ \A i \in DOMAIN line : /\ Sent(line[i].frame.n)
                            /\ \A j \in DOMAIN ec : line[i].frame.n < ec[j].n
  /\ \A i \in DOMAIN rx_fifo :
       /\ Sent(rx_fifo[i].frame.n)
       /\ \A j \in DOMAIN ec : rx_fifo[i].frame.n < ec[j].n
       /\ \A j \in DOMAIN line : Before(rx_fifo[i], line[j])
  /\ Ordered(line) /\ Ordered(rx_fifo)

IInv == TypeOK /\ InOrder /\ LagBounded /\ (result.n # 0 => pc = "idle")

-----------------------------------------------------------------------------
(* Sequences.                                                              *)

\* The elements that Head leaves behind.
LEMMA TailElements ==
  ASSUME NEW S, NEW s \in Seq(S), s # <<>>
  PROVE  /\ 1 \in DOMAIN s /\ Head(s) = s[1]
         /\ \A i \in DOMAIN Tail(s) :
              i \in Nat /\ i + 1 \in DOMAIN s /\ 1 < i + 1 /\ Tail(s)[i] = s[i + 1]
<1>1. Len(s) \in Nat /\ Len(s) > 0 /\ DOMAIN s = 1 .. Len(s) /\ Head(s) = s[1]
  OBVIOUS
<1>2. /\ Tail(s) \in Seq(S) /\ Len(Tail(s)) = Len(s) - 1
      /\ \A i \in 1 .. Len(Tail(s)) : Tail(s)[i] = s[i + 1]
  BY HeadTailProperties
<1>3. DOMAIN Tail(s) = 1 .. Len(s) - 1
  BY <1>2, LenProperties
<1> QED BY <1>1, <1>2, <1>3

\* Those of a sequence with one appended.
LEMMA AppendElements ==
  ASSUME NEW S, NEW s \in Seq(S), NEW e \in S
  PROVE  /\ \A i \in DOMAIN s : i \in Nat /\ i <= Len(s)
         /\ \A i \in DOMAIN Append(s, e) :
              \/ i \in DOMAIN s /\ Append(s, e)[i] = s[i]
              \/ i = Len(s) + 1 /\ Append(s, e)[i] = e
<1>1. /\ Append(s, e) \in Seq(S) /\ Len(Append(s, e)) = Len(s) + 1
      /\ \A i \in 1 .. Len(s) : Append(s, e)[i] = s[i]
      /\ Append(s, e)[Len(s) + 1] = e
  BY AppendProperties
<1>2. Len(s) \in Nat /\ DOMAIN s = 1 .. Len(s)
      /\ DOMAIN Append(s, e) = 1 .. Len(s) + 1
  BY <1>1, LenProperties
<1>3. \A i \in 1 .. Len(s) + 1 : i \in 1 .. Len(s) \/ i = Len(s) + 1
  BY <1>2
<1> QED BY <1>1, <1>2, <1>3

\* Those of a sequence with a frame appended.
LEMMA ConcatElements ==
  ASSUME NEW S, NEW s \in Seq(S), NEW t \in Seq(S)
  PROVE  /\ \A i \in DOMAIN s : i \in Nat /\ i <= Len(s)
         /\ \A i \in DOMAIN (s \o t) :
              \/ i \in DOMAIN s /\ (s \o t)[i] = s[i]
              \/ /\ i \in Nat /\ i > Len(s) /\ i - Len(s) \in DOMAIN t
                 /\ (s \o t)[i] = t[i - Len(s)]
<1>1. /\ s \o t \in Seq(S) /\ Len(s \o t) = Len(s) + Len(t)
      /\ \A i \in 1 .. Len(s) + Len(t) : (s \o t)[i] =
           IF i <= Len(s) THEN s[i] ELSE t[i - Len(s)]
  BY ConcatProperties
<1>2. Len(s) \in Nat /\ DOMAIN s = 1 .. Len(s)
      /\ Len(t) \in Nat /\ DOMAIN t = 1 .. Len(t)
      /\ DOMAIN (s \o t) = 1 .. Len(s) + Len(t)
  BY <1>1, LenProperties
<1>3. \A i \in 1 .. Len(s) + Len(t) :
        \/ i \in 1 .. Len(s) /\ i <= Len(s)
        \/ i \in Nat /\ i > Len(s) /\ ~(i <= Len(s)) /\ i - Len(s) \in 1 .. Len(t)
  BY <1>2
<1> QED BY <1>1, <1>2, <1>3

-----------------------------------------------------------------------------
(* The order of numbers.                                                   *)

\* What the types say of the numbers.
LEMMA Numbers ==
  ASSUME TypeOK
  PROVE  /\ request.n \in Nat /\ gave_up \in Nat /\ EndsRead \in Int
         /\ \A i \in DOMAIN ec : ec[i] \in Call /\ ec[i].n \in Nat
         /\ \A i \in DOMAIN line : line[i] \in Byte /\ line[i].frame.n \in Nat
         /\ \A i \in DOMAIN rx_fifo :
              rx_fifo[i] \in Byte /\ rx_fifo[i].frame.n \in Nat
<1>1. request.n \in Nat /\ gave_up \in Nat
  BY DEF TypeOK, Call
<1>2. \A i \in DOMAIN ec : ec[i] \in Call
  BY DEF TypeOK
<1>3. \A i \in DOMAIN line : line[i] \in Byte
  BY DEF TypeOK
<1>4. \A i \in DOMAIN rx_fifo : rx_fifo[i] \in Byte
  BY DEF TypeOK
<1>5. \A c \in Call : c.n \in Nat
  BY DEF Call
<1> QED BY <1>1, <1>2, <1>3, <1>4, <1>5, ByteFields DEF EndsRead

\* A step that leaves what is on its way alone keeps the order if every number
\* that was sent still counts as sent.
LEMMA OrderKept ==
  ASSUME IInv, UNCHANGED <<ec, line, rx_fifo>>, \A n \in Nat : Sent(n) => Sent(n)'
  PROVE  InOrder'
BY Numbers DEF IInv, InOrder, Ordered, Before

\* A step that reads from the FIFO does, too.
LEMMA ReadKept ==
  ASSUME IInv, rx_fifo # <<>>, rx_fifo' = Tail(rx_fifo), UNCHANGED <<ec, line>>,
         \A n \in Nat : /\ Sent(n)
                        /\ SERIAL_END_FLAG(Head(rx_fifo)) => Head(rx_fifo).frame.n < n
                        => Sent(n)'
  PROVE  InOrder'
<1>0. TypeOK /\ InOrder
  BY DEF IInv
<1>1. /\ 1 \in DOMAIN rx_fifo /\ Head(rx_fifo) = rx_fifo[1]
      /\ \A i \in DOMAIN rx_fifo' :
           /\ i \in Nat /\ i + 1 \in DOMAIN rx_fifo /\ 1 < i + 1
           /\ rx_fifo'[i] = rx_fifo[i + 1]
  BY <1>0, TailElements DEF TypeOK
<1>2. \A i \in DOMAIN ec : Sent(ec[i].n)'
  BY <1>0, <1>1, Numbers DEF InOrder
<1>3. \A i \in DOMAIN line : Sent(line[i].frame.n)'
  BY <1>0, <1>1, Numbers DEF InOrder, Before
<1>5. Ordered(rx_fifo)'
  <2> SUFFICES ASSUME NEW i \in DOMAIN rx_fifo', NEW j \in DOMAIN rx_fifo', i < j
               PROVE  Before(rx_fifo'[i], rx_fifo'[j])
    BY DEF Ordered, Before
  <2>1. i + 1 < j + 1
    BY <1>1
  <2> QED BY <1>0, <1>1, <2>1 DEF InOrder, Ordered
<1>6. ASSUME NEW i \in DOMAIN rx_fifo'
      PROVE  /\ Sent(rx_fifo[i].frame.n)'
             /\ \A j \in DOMAIN ec : rx_fifo'[i].frame.n < ec[j].n
             /\ \A j \in DOMAIN line : Before(rx_fifo'[i], line[j])
  <2>1. PICK n \in Nat : n = rx_fifo'[i].frame.n /\ n = rx_fifo[i + 1].frame.n
    BY <1>0, <1>1, Numbers
  <2>2. Before(rx_fifo[1], rx_fifo[i + 1]) /\ Sent(n)
    BY <1>0, <1>1, <2>1 DEF InOrder, Ordered
  <2>3. Sent(n)'
    BY <1>1, <2>1, <2>2 DEF Before
  <2> QED BY <1>0, <1>1, <2>1, <2>3 DEF InOrder
<1>7. /\ \A i, j \in DOMAIN ec : i < j => ec[i].n < ec[j].n
      /\ \A i \in DOMAIN line : \A j \in DOMAIN ec : line[i].frame.n < ec[j].n
      /\ Ordered(line)'
  BY <1>0 DEF InOrder, Ordered, Before
<1> QED BY <1>2, <1>3, <1>5, <1>6, <1>7 DEF InOrder, Before

\* Every step keeps the order.
LEMMA OrderStep ==
  ASSUME IInv, [Next]_vars
  PROVE  InOrder'
<1>0. TypeOK /\ InOrder
  BY DEF IInv
<1>a. request.n \in Nat /\ gave_up \in Nat
  BY <1>0, Numbers
<1>1. CASE UNCHANGED <<pc, request, gave_up, ec, line, rx_fifo>>
  <2>1. \A n \in Nat : Sent(n) => Sent(n)'
    BY <1>1 DEF Sent, EndsRead
  <2> QED BY <1>1, <2>1, OrderKept
<1>2. ASSUME NEW command \in Command, invoke_request(command)
      PROVE  InOrder'
  <2>1. \A n \in Nat : Sent(n) => Sent(n)'
    BY <1>2, <1>a DEF invoke_request, Sent, EndsRead
  <2> QED BY <1>2, <2>1, OrderKept DEF invoke_request, world
<1>3. CASE send_packet
  <2>1. \A n \in Nat : n = request.n \/ Sent(n) => Sent(n)'
    BY <1>3, <1>a DEF send_packet, Sent, EndsRead
  <2>2. \A n \in Nat : Sent(n) => n < request.n
    BY <1>3 DEF send_packet, Sent
  <2>3. /\ \A i \in DOMAIN ec : i \in Nat /\ i <= Len(ec)
        /\ \A i \in DOMAIN ec' : \/ i \in DOMAIN ec /\ ec'[i] = ec[i]
                                 \/ i = Len(ec) + 1 /\ ec'[i] = request
    BY <1>0, <1>3, AppendElements DEF send_packet, TypeOK
  <2>4. Len(ec) \in Nat
    BY <1>0 DEF TypeOK
  <2>5. ASSUME NEW i \in DOMAIN ec' PROVE Sent(ec[i].n)'
    <3>1. PICK n \in Nat : n = ec'[i].n /\ (n = request.n \/ Sent(n))
      BY <1>0, <1>a, <2>3, Numbers DEF InOrder
    <3> QED BY <2>1, <3>1
  <2>6. \A i, j \in DOMAIN ec' : i < j => ec'[i].n < ec'[j].n
    BY <1>0, <2>2, <2>3, <2>4, Numbers DEF InOrder
  <2>7. UNCHANGED <<line, rx_fifo>>
    BY <1>3 DEF send_packet
  <2>8. \A i \in DOMAIN line : /\ Sent(line[i].frame.n)'
                               /\ \A j \in DOMAIN ec' : line[i].frame.n < ec'[j].n
    BY <1>0, <2>1, <2>2, <2>3, <2>7, Numbers DEF InOrder
  <2>9. \A i \in DOMAIN rx_fifo :
          /\ Sent(rx_fifo[i].frame.n)'
          /\ \A j \in DOMAIN ec' : rx_fifo[i].frame.n < ec'[j].n
          /\ \A j \in DOMAIN line : Before(rx_fifo[i], line[j])
    BY <1>0, <2>1, <2>2, <2>3, <2>7, Numbers DEF InOrder
  <2>10. Ordered(line)' /\ Ordered(rx_fifo)'
    BY <1>0, <2>7 DEF InOrder, Ordered, Before
  <2> QED BY <2>5, <2>6, <2>7, <2>8, <2>9, <2>10 DEF InOrder, Before
<1>4. ASSUME NEW code, GiveUp(code), pc = "recv" PROVE InOrder'
  <2>1. \A n \in Nat : Sent(n) => Sent(n)'
    BY <1>4, <1>a DEF GiveUp, Return, Sent, EndsRead
  <2> QED BY <1>4, <2>1, OrderKept DEF GiveUp, world
<1>5. CASE poll_empty
  BY <1>1, <1>4, <1>5 DEF poll_empty, world
<1>6. CASE rx_packet_full
  BY <1>4, <1>6 DEF rx_packet_full
<1>7. CASE read_byte
  <2>1. /\ rx_fifo # <<>> /\ rx_fifo' = Tail(rx_fifo)
        /\ UNCHANGED <<ec, line, request, gave_up>>
        /\ pc = "recv" /\ pc' = IF SERIAL_END_FLAG(Head(rx_fifo)) THEN "idle" ELSE "recv"
    BY <1>7 DEF read_byte, Return
  <2>2. /\ EndsRead < Head(rx_fifo).frame.n /\ Head(rx_fifo).frame.n \in Nat
    <3>1. 1 \in DOMAIN rx_fifo /\ Head(rx_fifo) = rx_fifo[1]
      BY <1>0, <2>1, TailElements DEF TypeOK
    <3> QED BY <1>0, <3>1, Numbers DEF InOrder, Sent
  <2>3. ASSUME NEW n \in Nat, Sent(n),
               SERIAL_END_FLAG(Head(rx_fifo)) => Head(rx_fifo).frame.n < n
        PROVE  Sent(n)'
    BY <1>a, <2>1, <2>2, <2>3 DEF Sent, EndsRead
  <2> QED BY <2>1, <2>3, ReadKept
<1>8. CASE EcAnswers
  <2>1. PICK kind \in Kind, discriminant \in Discriminant :
      line' = line \o Frame(AnswerTo(kind, discriminant, Head(ec)))
    BY <1>8 DEF EcAnswers
  <2>2. UNCHANGED <<pc, request, gave_up, rx_fifo>> /\ ec # <<>> /\ ec' = Tail(ec)
    BY <1>8 DEF EcAnswers, relay
  <2>3. /\ 1 \in DOMAIN ec /\ Head(ec) = ec[1]
        /\ \A i \in DOMAIN ec' : /\ i \in Nat /\ i + 1 \in DOMAIN ec /\ 1 < i + 1
                                 /\ ec'[i] = ec[i + 1]
    BY <1>0, <2>2, TailElements DEF TypeOK
  <2> DEFINE h == AnswerTo(kind, discriminant, Head(ec))
  <2>4. h \in Header /\ h.n = ec[1].n /\ h.n \in Nat
    BY <1>0, <2>3, AnswerType, Numbers
  <2> HIDE DEF h
  <2>5. /\ Frame(h) \in Seq(Byte) /\ Len(Frame(h)) = FrameLen
        /\ DOMAIN Frame(h) = 1 .. FrameLen
        /\ \A i \in 1 .. FrameLen :
             /\ Frame(h)[i].frame = h
             /\ SERIAL_END_FLAG(Frame(h)[i]) <=> i = FrameLen
    BY <2>4, FrameType, LenProperties
  <2>6. /\ \A i \in DOMAIN line : i \in Nat /\ i <= Len(line)
        /\ \A i \in DOMAIN line' :
             \/ i \in DOMAIN line /\ line'[i] = line[i]
             \/ /\ i \in Nat /\ i > Len(line) /\ i - Len(line) \in 1 .. FrameLen
                /\ line'[i] = Frame(h)[i - Len(line)]
    BY <1>0, <2>1, <2>5, ConcatElements DEF h, TypeOK
  <2>7. Len(line) \in Nat /\ FrameLen \in Nat
    BY <1>0, SizesAssumption DEF TypeOK
  <2>8. \A n \in Nat : Sent(n) => Sent(n)'
    BY <2>2 DEF Sent, EndsRead
  <2>9. \A i \in DOMAIN line' : \/ i \in DOMAIN line /\ line'[i] = line[i]
                                \/ i \notin DOMAIN line /\ line'[i].frame = h
    BY <2>5, <2>6, <2>7
  <2>10. /\ \A i \in DOMAIN ec' : Sent(ec[i].n)'
         /\ \A i, j \in DOMAIN ec' : i < j => ec'[i].n < ec'[j].n
         /\ \A j \in DOMAIN ec' : h.n < ec'[j].n
    <3>1. ASSUME NEW i \in DOMAIN ec' PROVE Sent(ec[i].n)'
      <4>1. PICK n \in Nat : n = ec'[i].n /\ Sent(n)
        BY <1>0, <2>3, Numbers DEF InOrder
      <4> QED BY <2>8, <4>1
    <3> QED BY <1>0, <2>3, <2>4, <3>1 DEF InOrder
  <2>11. ASSUME NEW i \in DOMAIN line'
         PROVE  /\ Sent(line[i].frame.n)'
                /\ \A j \in DOMAIN ec' : line'[i].frame.n < ec'[j].n
    <3>1. PICK n \in Nat : n = line'[i].frame.n /\ Sent(n)
      BY <1>0, <2>3, <2>4, <2>9, Numbers DEF InOrder
    <3>2. Sent(n)'
      BY <2>8, <3>1
    <3> QED BY <1>0, <2>3, <2>9, <2>10, <3>1, <3>2 DEF InOrder
  <2>12. ASSUME NEW i \in DOMAIN rx_fifo
         PROVE  /\ Sent(rx_fifo[i].frame.n)'
                /\ \A j \in DOMAIN ec' : rx_fifo[i].frame.n < ec'[j].n
                /\ \A j \in DOMAIN line' : Before(rx_fifo[i], line'[j])
    <3>1. rx_fifo[i].frame.n \in Nat /\ rx_fifo[i].frame.n < h.n
      BY <1>0, <2>3, <2>4, Numbers DEF InOrder
    <3>2. \A j \in DOMAIN line' : Before(rx_fifo[i], line'[j])
      BY <1>0, <2>4, <2>9, <3>1 DEF InOrder, Before
    <3> QED BY <1>0, <2>2, <2>3, <2>8, <3>1, <3>2 DEF InOrder
  <2>13. Ordered(line)'
    <3> SUFFICES ASSUME NEW i \in DOMAIN line', NEW j \in DOMAIN line', i < j
                 PROVE  Before(line'[i], line'[j])
      BY DEF Ordered, Before
    <3>1. CASE i \in DOMAIN line /\ j \in DOMAIN line
      BY <1>0, <2>6, <2>7, <2>9, <3>1 DEF InOrder, Ordered
    <3>2. CASE i \in DOMAIN line /\ j \notin DOMAIN line
      BY <1>0, <2>3, <2>4, <2>9, <3>2, Numbers DEF InOrder, Before
    <3>3. CASE i \notin DOMAIN line
      <4>1. i > Len(line) /\ i - Len(line) \in 1 .. FrameLen
            /\ line'[i] = Frame(h)[i - Len(line)] /\ i \in Nat
        BY <2>6, <3>3
      <4>2. j \notin DOMAIN line
        BY <2>6, <2>7, <4>1
      <4>3. j - Len(line) \in 1 .. FrameLen /\ j \in Nat
        BY <2>6, <4>2
      <4>4. i - Len(line) # FrameLen
        BY <2>7, <4>1, <4>3
      <4>5. ~SERIAL_END_FLAG(line'[i])
        BY <2>5, <4>1, <4>4
      <4> QED BY <2>4, <2>9, <3>3, <4>2, <4>5 DEF Before
    <3> QED BY <3>1, <3>2, <3>3
  <2>14. Ordered(rx_fifo)'
    BY <1>0, <2>2 DEF InOrder, Ordered, Before
  <2> QED BY <2>2, <2>10, <2>11, <2>12, <2>13, <2>14 DEF InOrder, Before
<1>9. CASE EcDrops
  <2>1. UNCHANGED <<pc, request, gave_up, line, rx_fifo>> /\ ec # <<>> /\ ec' = Tail(ec)
    BY <1>9 DEF EcDrops, relay
  <2>2. \A i \in DOMAIN ec' : /\ i \in Nat /\ i + 1 \in DOMAIN ec /\ 1 < i + 1
                              /\ ec'[i] = ec[i + 1]
    BY <1>0, <2>1, TailElements DEF TypeOK
  <2>3. \A n : Sent(n) => Sent(n)'
    BY <2>1 DEF Sent, EndsRead
  <2>4. ASSUME NEW i \in DOMAIN ec' PROVE Sent(ec[i].n)'
    <3>1. PICK n : n = ec'[i].n /\ Sent(n)
      BY <1>0, <2>2 DEF InOrder
    <3> QED BY <2>3, <3>1
  <2>5. \A i, j \in DOMAIN ec' : i < j => ec'[i].n < ec'[j].n
    BY <1>0, <2>2 DEF InOrder
  <2> QED BY <1>0, <2>1, <2>2, <2>3, <2>4, <2>5 DEF InOrder, Ordered, Before
<1>10. CASE ByteArrives
  <2>1. /\ UNCHANGED <<pc, request, gave_up, ec>> /\ line # <<>> /\ line' = Tail(line)
        /\ rx_fifo' \in {rx_fifo, Append(rx_fifo, Head(line))}
    BY <1>10 DEF ByteArrives, relay
  <2>2. /\ 1 \in DOMAIN line /\ Head(line) = line[1]
        /\ \A i \in DOMAIN line' : /\ i \in Nat /\ i + 1 \in DOMAIN line /\ 1 < i + 1
                                   /\ line'[i] = line[i + 1]
    BY <1>0, <2>1, TailElements DEF TypeOK
  <2>3. /\ \A i \in DOMAIN rx_fifo : i \in Nat /\ i <= Len(rx_fifo)
        /\ \A i \in DOMAIN rx_fifo' :
             \/ i \in DOMAIN rx_fifo /\ rx_fifo'[i] = rx_fifo[i]
             \/ i = Len(rx_fifo) + 1 /\ rx_fifo'[i] = line[1]
    <3>1. line[1] \in Byte
      BY <1>0, <2>2, Numbers
    <3>2. rx_fifo \in Seq(Byte)
      BY <1>0 DEF TypeOK
    <3>3. /\ \A i \in DOMAIN rx_fifo : i \in Nat /\ i <= Len(rx_fifo)
          /\ \A i \in DOMAIN Append(rx_fifo, line[1]) :
               \/ i \in DOMAIN rx_fifo /\ Append(rx_fifo, line[1])[i] = rx_fifo[i]
               \/ i = Len(rx_fifo) + 1 /\ Append(rx_fifo, line[1])[i] = line[1]
      BY <3>1, <3>2, AppendElements
    <3>4. CASE rx_fifo' = rx_fifo
      BY <3>3, <3>4
    <3>5. CASE rx_fifo' = Append(rx_fifo, line[1])
      BY <3>3, <3>5, Zenon
    <3> QED BY <2>1, <2>2, <3>4, <3>5
  <2>4. Len(rx_fifo) \in Nat
    BY <1>0 DEF TypeOK
  <2>5. \A n : Sent(n) => Sent(n)'
    BY <2>1 DEF Sent, EndsRead
  <2>6. ASSUME NEW i \in DOMAIN line'
        PROVE  /\ Sent(line[i].frame.n)'
               /\ \A j \in DOMAIN ec : line'[i].frame.n < ec[j].n
               /\ Before(line[1], line'[i])
    <3>1. PICK n : n = line'[i].frame.n /\ Sent(n)
      BY <1>0, <2>2 DEF InOrder
    <3>2. Sent(n)'
      BY <2>5, <3>1
    <3> QED BY <1>0, <2>2, <3>1, <3>2 DEF InOrder, Ordered
  <2>7. ASSUME NEW i \in DOMAIN rx_fifo'
        PROVE  /\ Sent(rx_fifo[i].frame.n)'
               /\ \A j \in DOMAIN ec : rx_fifo'[i].frame.n < ec[j].n
               /\ \A j \in DOMAIN line' : Before(rx_fifo'[i], line'[j])
    <3>1. PICK n : n = rx_fifo'[i].frame.n /\ Sent(n)
      BY <1>0, <2>2, <2>3 DEF InOrder
    <3>2. Sent(n)'
      BY <2>5, <3>1
    <3>3. \A j \in DOMAIN line' : Before(rx_fifo'[i], line'[j])
      BY <1>0, <2>2, <2>3, <2>6 DEF InOrder
    <3> QED BY <1>0, <2>2, <2>3, <3>1, <3>2, <3>3 DEF InOrder
  <2>8. Ordered(line)'
    <3> SUFFICES ASSUME NEW i \in DOMAIN line', NEW j \in DOMAIN line', i < j
                 PROVE  Before(line'[i], line'[j])
      BY DEF Ordered, Before
    <3>1. i + 1 < j + 1
      BY <2>2
    <3> QED BY <1>0, <2>2, <3>1 DEF InOrder, Ordered
  <2>9. Ordered(rx_fifo)'
    <3> SUFFICES ASSUME NEW i \in DOMAIN rx_fifo', NEW j \in DOMAIN rx_fifo', i < j
                 PROVE  Before(rx_fifo'[i], rx_fifo'[j])
      BY DEF Ordered, Before
    <3>1. i \in DOMAIN rx_fifo /\ rx_fifo'[i] = rx_fifo[i]
      BY <2>3, <2>4
    <3>2. CASE j \in DOMAIN rx_fifo /\ rx_fifo'[j] = rx_fifo[j]
      BY <1>0, <3>1, <3>2 DEF InOrder, Ordered
    <3>3. CASE rx_fifo'[j] = line[1]
      BY <1>0, <2>2, <3>1, <3>3 DEF InOrder
    <3> QED BY <2>3, <3>2, <3>3
  <2>10. /\ \A i \in DOMAIN ec : Sent(ec[i].n)'
         /\ \A i, j \in DOMAIN ec : i < j => ec[i].n < ec[j].n
    BY <1>0, <2>1, <2>5 DEF InOrder
  <2> QED BY <2>1, <2>6, <2>7, <2>8, <2>9, <2>10 DEF InOrder, Before
<1>11. CASE TxFills \/ TxDrains
  BY <1>1, <1>11 DEF TxFills, TxDrains, relay
<1>12. CASE UNCHANGED vars
  BY <1>1, <1>12 DEF vars, relay, world
<1> QED
  BY <1>2, <1>3, <1>5, <1>6, <1>7, <1>8, <1>9, <1>10, <1>11, <1>12
  DEF Next, Relay, World

-----------------------------------------------------------------------------
(* Lag.                                                                    *)

\* Every step keeps the lag within the number of invokes that gave up.
LEMMA LagStep ==
  ASSUME IInv, [Next]_vars
  PROVE  (LagBounded /\ (result.n # 0 => pc = "idle"))'
<1>0. TypeOK /\ InOrder /\ LagBounded /\ (result.n # 0 => pc = "idle")
  BY DEF IInv
<1>a. request.n \in Nat /\ gave_up \in Nat
  BY <1>0, Numbers
<1>1. CASE UNCHANGED <<pc, request, gave_up, result>>
  BY <1>0, <1>1 DEF LagBounded
<1>2. CASE result'.n = 0
  BY <1>2 DEF LagBounded
<1>3. ASSUME NEW command \in Command, invoke_request(command)
      PROVE  result'.n = 0
  BY <1>3 DEF invoke_request, NoResult
<1>4. CASE send_packet
  <2>1. result'.n = 0
    BY <1>0, <1>4 DEF send_packet
  <2> QED BY <1>2, <2>1
<1>5. ASSUME NEW code, GiveUp(code) PROVE result'.n = 0
  BY <1>5 DEF GiveUp, Return
<1>6. CASE poll_empty \/ rx_packet_full
  <2>1. UNCHANGED <<pc, request, gave_up, result>> \/ result'.n = 0
    BY <1>5, <1>6 DEF poll_empty, rx_packet_full
  <2> QED BY <1>1, <1>2, <2>1
<1>7. CASE read_byte
  <2> DEFINE byte == Head(rx_fifo)
  <2>1. pc = "recv" /\ rx_fifo # <<>> /\ UNCHANGED <<request, gave_up>>
    BY <1>7 DEF read_byte
  <2>2. \/ UNCHANGED <<pc, result>>
        \/ result'.n = 0
        \/ pc' = "idle" /\ result'.n = byte.frame.n
    BY <1>7 DEF read_byte, Return
  <2>3. CASE pc' = "idle" /\ result'.n = byte.frame.n
    <3>1. 1 \in DOMAIN rx_fifo /\ byte = rx_fifo[1]
      BY <1>0, <2>1, TailElements DEF TypeOK
    <3>2. Sent(byte.frame.n) /\ byte.frame.n \in Nat
      BY <1>0, <3>1, Numbers DEF InOrder
    <3>3. byte.frame.n <= request.n /\ request.n - byte.frame.n <= gave_up
      BY <1>a, <2>1, <3>2 DEF Sent, EndsRead
    <3> QED BY <2>1, <2>3, <3>3 DEF LagBounded
  <2> QED BY <1>1, <1>2, <2>1, <2>2, <2>3
<1>8. CASE World \/ UNCHANGED vars
  BY <1>1, <1>8
  DEF World, EcAnswers, EcDrops, ByteArrives, TxFills, TxDrains, relay, vars
<1> QED BY <1>2, <1>3, <1>4, <1>6, <1>7, <1>8 DEF Next, Relay

LEMMA InitInv ==
  ASSUME Init
  PROVE  IInv
<1>1. DOMAIN ec = {} /\ DOMAIN line = {} /\ DOMAIN rx_fifo = {}
  BY DEF Init
<1>2. InOrder
  BY <1>1 DEF InOrder, Ordered
<1> QED BY <1>2, InitType DEF Init, NoResult, LagBounded, IInv

LEMMA InvStep ==
  ASSUME IInv, [Next]_vars
  PROVE  IInv'
BY TypeStep, OrderStep, LagStep DEF IInv

\* A result is the answer to its own request or, when invokes gave up before,
\* to a request at most as many invokes back as gave up: recv_framed_packet
\* takes whatever END flag comes first, and nothing else shifts the answers.
THEOREM LagHolds == Spec => []LagBounded
<1>1. IInv => LagBounded
  BY DEF IInv
<1> QED BY <1>1, InitInv, InvStep, PTL DEF Spec

-----------------------------------------------------------------------------
(* Sets of positions in increasing order.                                  *)

\* Induction, for a set instead of a predicate: an element that is missing
\* from the set would be above a smallest one.
LEMMA NatSetInduction ==
  ASSUME NEW S, 0 \in S, \A n \in Nat : n \in S => n + 1 \in S
  PROVE  \A n \in Nat : n \in S
<1> DEFINE T == Nat \ S
           R == OpToRel(<, Nat)
<1>1. SUFFICES ASSUME T # {} PROVE FALSE
  OBVIOUS
<1>2. IsWellFoundedOn(R, Nat)
  BY NatLessThanWellFounded
<1>3. T \subseteq Nat
  OBVIOUS
<1> HIDE DEF T
<1>4. PICK m \in T : \A y \in T : ~ (<<y, m>> \in R)
  BY <1>1, <1>2, <1>3, WFMin
<1>5. \A y \in T : ~ (y < m)
  BY <1>3, <1>4 DEF OpToRel
<1>6. m \in Nat /\ m \notin S /\ m # 0
  BY DEF T
<1>7. m - 1 \in Nat /\ (m - 1) + 1 = m /\ m - 1 < m
  BY <1>6
<1>8. m - 1 \in S
  BY <1>5, <1>7 DEF T
<1> QED BY <1>6, <1>7, <1>8

\* f lists the n elements of S in increasing order.
Lists(f, n, S) ==
  /\ f \in [1 .. n -> S]
  /\ \A i, j \in 1 .. n : i < j => f[i] < f[j]
  /\ \A p \in S : \E i \in 1 .. n : f[i] = p

\* Only one does.
LEMMA ListsOnce ==
  ASSUME NEW S \in SUBSET Nat, NEW n \in Nat,
         NEW f, Lists(f, n, S), NEW g, Lists(g, n, S)
  PROVE  f = g
<1>1. /\ f \in [1 .. n -> S] /\ g \in [1 .. n -> S]
      /\ \A i, j \in 1 .. n : i < j => f[i] < f[j]
      /\ \A i, j \in 1 .. n : i < j => g[i] < g[j]
      /\ \A p \in S : \E i \in 1 .. n : f[i] = p
      /\ \A p \in S : \E i \in 1 .. n : g[i] = p
  BY DEF Lists
<1>2. \A i \in 1 .. n : f[i] \in S /\ g[i] \in S /\ f[i] \in Nat /\ g[i] \in Nat
  BY <1>1
<1> DEFINE T == {k \in Nat : \A i \in 1 .. n : i <= k => f[i] = g[i]}
<1>3. 0 \in T
  OBVIOUS
<1>4. ASSUME NEW k \in Nat, k \in T PROVE k + 1 \in T
  <2> SUFFICES ASSUME k + 1 \in 1 .. n PROVE f[k + 1] = g[k + 1]
    BY <1>4
  <2>1. PICK i \in 1 .. n : g[i] = f[k + 1]
    BY <1>1, <1>2
  <2>2. PICK j \in 1 .. n : f[j] = g[k + 1]
    BY <1>1, <1>2
  <2>3. i >= k + 1
    <3> SUFFICES ASSUME i <= k PROVE FALSE
      OBVIOUS
    <3>1. f[i] = f[k + 1] /\ i < k + 1
      BY <1>4, <2>1
    <3> QED BY <1>1, <1>2, <3>1
  <2>4. j >= k + 1
    <3> SUFFICES ASSUME j <= k PROVE FALSE
      OBVIOUS
    <3>1. g[j] = g[k + 1] /\ j < k + 1
      BY <1>4, <2>2
    <3> QED BY <1>1, <1>2, <3>1
  <2>5. g[k + 1] <= f[k + 1]
    <3>1. i = k + 1 \/ g[k + 1] < g[i]
      BY <1>1, <2>3
    <3> QED BY <1>2, <2>1, <3>1
  <2>6. f[k + 1] <= g[k + 1]
    <3>1. j = k + 1 \/ f[k + 1] < f[j]
      BY <1>1, <2>4
    <3> QED BY <1>2, <2>2, <3>1
  <2> QED BY <1>2, <2>5, <2>6
<1> HIDE DEF T
<1>5. n \in T
  BY <1>3, <1>4, NatSetInduction
<1>6. \A i \in 1 .. n : f[i] = g[i]
  BY <1>5 DEF T
<1> QED BY <1>1, <1>6

\* A list of S is a bijection, so its length is the cardinality of S.
LEMMA ListCounts ==
  ASSUME NEW S \in SUBSET Nat, NEW n \in Nat, NEW f, Lists(f, n, S)
  PROVE  IsFiniteSet(S) /\ Cardinality(S) = n
<1>1. \A i, j \in 1 .. n : f[i] = f[j] => i = j
  <2>1. \A i \in 1 .. n : f[i] \in Nat
    BY DEF Lists
  <2> QED BY <2>1 DEF Lists
<1>2. f \in Bijection(1 .. n, S)
  BY <1>1 DEF Lists, Bijection, Injection, Surjection, IsInjective
<1>3. ExistsBijection(1 .. n, S)
  BY <1>2 DEF ExistsBijection
<1> QED BY <1>3, FS_CountingElements, FS_NatBijection

\* Every bounded set of positions has a list.
LEMMA ListExists ==
  ASSUME NEW m \in Nat, NEW S \in SUBSET (1 .. m)
  PROVE  \E n \in Nat : \E f : Lists(f, n, S)
<1> DEFINE T == {k \in Nat : \A U \in SUBSET (1 .. k) :
                               \E n \in Nat : \E f : Lists(f, n, U)}
<1>1. 0 \in T
  <2> SUFFICES ASSUME NEW U \in SUBSET (1 .. 0)
               PROVE  \E n \in Nat : \E f : Lists(f, n, U)
    OBVIOUS
  <2>1. U = {}
    OBVIOUS
  <2>2. Lists([i \in 1 .. 0 |-> 0], 0, U)
    BY <2>1 DEF Lists
  <2> QED BY <2>2
<1>2. ASSUME NEW k \in Nat, k \in T PROVE k + 1 \in T
  <2> SUFFICES ASSUME NEW U \in SUBSET (1 .. k + 1)
               PROVE  \E n \in Nat : \E f : Lists(f, n, U)
    OBVIOUS
  <2>1. CASE k + 1 \notin U
    <3>1. U \in SUBSET (1 .. k)
      BY <2>1
    <3> QED BY <1>2, <3>1
  <2>2. CASE k + 1 \in U
    <3> DEFINE V == U \ {k + 1}
    <3>1. V \in SUBSET (1 .. k)
      OBVIOUS
    <3>a. PICK n \in Nat : \E f : Lists(f, n, V)
      BY <1>2, <3>1
    <3>2. PICK f : Lists(f, n, V)
      BY <3>a
    <3> DEFINE g == [i \in 1 .. n + 1 |-> IF i = n + 1 THEN k + 1 ELSE f[i]]
    <3>3. /\ \A i \in 1 .. n : f[i] \in V /\ g[i] = f[i]
          /\ g[n + 1] = k + 1
          /\ \A i \in 1 .. n + 1 : i = n + 1 \/ i \in 1 .. n
      BY <3>2 DEF Lists
    <3>4. g \in [1 .. n + 1 -> U]
      BY <2>2, <3>3
    <3>5. \A i, j \in 1 .. n + 1 : i < j => g[i] < g[j]
      <4> SUFFICES ASSUME NEW i \in 1 .. n + 1, NEW j \in 1 .. n + 1, i < j
                   PROVE  g[i] < g[j]
        OBVIOUS
      <4>1. i \in 1 .. n
        OBVIOUS
      <4>2. CASE j = n + 1
        <5>1. g[i] \in 1 .. k /\ g[j] = k + 1
          BY <3>1, <3>3, <4>1, <4>2
        <5> QED BY <5>1
      <4>3. CASE j \in 1 .. n
        BY <3>2, <3>3, <4>1, <4>3 DEF Lists
      <4> QED BY <3>3, <4>2, <4>3
    <3>6. \A p \in U : \E i \in 1 .. n + 1 : g[i] = p
      <4> SUFFICES ASSUME NEW p \in U PROVE \E i \in 1 .. n + 1 : g[i] = p
        OBVIOUS
      <4>1. CASE p = k + 1
        BY <3>3, <4>1
      <4>2. CASE p # k + 1
        <5>1. PICK i \in 1 .. n : f[i] = p
          BY <3>2, <4>2 DEF Lists
        <5> QED BY <3>3, <5>1
      <4> QED BY <4>1, <4>2
    <3> HIDE DEF g
    <3>7. Lists(g, n + 1, U)
      BY <3>4, <3>5, <3>6 DEF Lists
    <3> QED BY <3>7
  <2> QED BY <2>1, <2>2
<1> HIDE DEF T
<1>3. m \in T
  BY <1>1, <1>2, NatSetInduction
<1> QED BY <1>3 DEF T

\* Sorted gives it.
LEMMA SortedLists ==
  ASSUME NEW m \in Nat, NEW S \in SUBSET (1 .. m),
         NEW n \in Nat, NEW f, Lists(f, n, S)
  PROVE  Sorted(S) = f
<1>0. S \in SUBSET Nat
  OBVIOUS
<1>1. IsFiniteSet(S) /\ Cardinality(S) = n
  BY <1>0, ListCounts
<1> DEFINE Rising(e) == \A i, j \in DOMAIN e : i < j => e[i] < e[j]
           g == CHOOSE e \in [1 .. n -> S] : Rising(e)
<1>2. f \in [1 .. n -> S] /\ Rising(f)
  BY DEF Lists
<1>3. g \in [1 .. n -> S] /\ Rising(g)
  <2> HIDE DEF Rising
  <2> QED BY <1>2
<1>4. Sorted(S) = g
  BY <1>1 DEF Sorted
<1> HIDE DEF g
<1>5. \A i, j \in 1 .. n : i < j => g[i] < g[j]
  BY <1>3
<1>6. \A i, j \in 1 .. n : g[i] = g[j] => i = j
  <2>1. \A i \in 1 .. n : g[i] \in Nat
    BY <1>0, <1>3
  <2> QED BY <1>5, <2>1
<1>7. g \in Injection(1 .. n, S)
  BY <1>3, <1>6 DEF Injection, IsInjective
<1>8. Cardinality(1 .. n) = n
  BY FS_Interval
<1>9. g \in Surjection(1 .. n, S)
  BY <1>1, <1>7, <1>8, FS_Injection
<1>10. Lists(g, n, S)
  BY <1>3, <1>5, <1>9 DEF Lists, Surjection
<1> QED BY <1>0, <1>4, <1>10, ListsOnce

-----------------------------------------------------------------------------
(* Whole frames in a stream of bytes.                                      *)

\* The last byte of a whole frame, by the bytes before it.
LEMMA EndsAre ==
  ASSUME NEW s \in Seq(Byte), NEW p
  PROVE  p \in Ends(s) <=>
           /\ p \in FrameLen .. Len(s)
           /\ \A j \in p - FrameLen + 1 .. p :
                s[j].frame = s[p].frame /\ s[j].pos = j - (p - FrameLen)
<1> USE SizesAssumption
<1>1. SUFFICES ASSUME p \in FrameLen .. Len(s)
               PROVE  (\A i \in 1 .. FrameLen :
                         s[p - FrameLen + i] = Frame(s[p].frame)[i])
                      <=> \A j \in p - FrameLen + 1 .. p :
                            /\ s[j].frame = s[p].frame
                            /\ s[j].pos = j - (p - FrameLen)
  BY DEF Ends
<1>2. Len(s) \in Nat /\ \A j \in 1 .. Len(s) : s[j] \in Byte
  OBVIOUS
<1>3. \A h, i : \A b \in Byte : b = [frame |-> h, pos |-> i] <=> b.frame = h /\ b.pos = i
  BY DEF Byte
<1>4. ASSUME NEW i \in 1 .. FrameLen
      PROVE  s[p - FrameLen + i] = Frame(s[p].frame)[i] <=>
               /\ s[p - FrameLen + i].frame = s[p].frame
               /\ s[p - FrameLen + i].pos = i
  <2>1. p - FrameLen + i \in 1 .. Len(s)
    BY <1>1, <1>2
  <2>2. Frame(s[p].frame)[i] = [frame |-> s[p].frame, pos |-> i]
    BY DEF Frame
  <2>3. PICK b \in Byte : b = s[p - FrameLen + i]
    BY <1>2, <2>1
  <2>4. b = [frame |-> s[p].frame, pos |-> i] <=> b.frame = s[p].frame /\ b.pos = i
    BY <1>3, <2>3
  <2> QED BY <2>2, <2>3, <2>4
<1>5. ASSUME \A i \in 1 .. FrameLen : s[p - FrameLen + i] = Frame(s[p].frame)[i],
             NEW j \in p - FrameLen + 1 .. p
      PROVE  s[j].frame = s[p].frame /\ s[j].pos = j - (p - FrameLen)
  <2>1. j - (p - FrameLen) \in 1 .. FrameLen /\ p - FrameLen + (j - (p - FrameLen)) = j
    BY <1>1
  <2> QED BY <1>4, <1>5, <2>1
<1>6. ASSUME \A j \in p - FrameLen + 1 .. p :
               s[j].frame = s[p].frame /\ s[j].pos = j - (p - FrameLen),
             NEW i \in 1 .. FrameLen
      PROVE  s[p - FrameLen + i] = Frame(s[p].frame)[i]
  <2>1. /\ p - FrameLen + i \in p - FrameLen + 1 .. p
        /\ (p - FrameLen + i) - (p - FrameLen) = i
    BY <1>1
  <2> QED BY <1>4, <1>6, <2>1
<1> QED BY <1>5, <1>6

\* Positions are bounded, so they have a list, and Frames goes along it.
LEMMA EndsListed ==
  ASSUME NEW s \in Seq(Byte)
  PROVE  /\ Len(s) \in Nat /\ Ends(s) \in SUBSET (1 .. Len(s))
         /\ \E n \in Nat : \E f : Lists(f, n, Ends(s))
<1>1. Len(s) \in Nat /\ Ends(s) \in SUBSET (1 .. Len(s))
  BY SizesAssumption DEF Ends
<1> QED BY <1>1, ListExists

LEMMA FramesAre ==
  ASSUME NEW s \in Seq(Byte), NEW n \in Nat, NEW f, Lists(f, n, Ends(s))
  PROVE  /\ Frames(s) = [i \in 1 .. n |-> s[f[i]].frame]
         /\ Frames(s) \in Seq(Header) /\ Len(Frames(s)) = n
<1>1. Sorted(Ends(s)) = f
  BY EndsListed, SortedLists
<1>2. f \in [1 .. n -> Ends(s)] /\ Ends(s) \in SUBSET (1 .. Len(s))
  BY EndsListed DEF Lists
<1>3. Frames(s) = [i \in 1 .. n |-> s[f[i]].frame]
  BY <1>1, <1>2 DEF Frames
<1>4. \A i \in 1 .. n : s[f[i]].frame \in Header
  BY <1>2, ByteFields
<1>5. Frames(s) \in [1 .. n -> Header]
  BY <1>3, <1>4
<1>6. Frames(s) \in Seq(Header)
  BY <1>5, SeqDef
<1> QED BY <1>3, <1>5, <1>6, LenProperties

\* The whole frames of a stream, with a frame at its end.
LEMMA FrameAppended ==
  ASSUME NEW s \in Seq(Byte), NEW h \in Header
  PROVE  Frames(s \o Frame(h)) = Append(Frames(s), h)
<1> USE SizesAssumption
<1> DEFINE t == s \o Frame(h)
           l == Len(s)
<1>1. /\ l \in Nat /\ t \in Seq(Byte) /\ Len(t) = l + FrameLen
      /\ \A j \in 1 .. l : t[j] = s[j]
      /\ \A j \in l + 1 .. l + FrameLen : t[j].frame = h /\ t[j].pos = j - l
  <2>1. /\ Frame(h) \in Seq(Byte) /\ Len(Frame(h)) = FrameLen
        /\ \A i \in 1 .. FrameLen : Frame(h)[i] = [frame |-> h, pos |-> i]
    BY FrameType DEF Frame
  <2>2. /\ l \in Nat /\ t \in Seq(Byte) /\ Len(t) = l + FrameLen
        /\ \A i \in 1 .. l + FrameLen : t[i] =
             IF i <= l THEN s[i] ELSE Frame(h)[i - l]
    <3>1. /\ s \o Frame(h) \in Seq(Byte)
          /\ Len(s \o Frame(h)) = Len(s) + Len(Frame(h))
          /\ \A i \in 1 .. Len(s) + Len(Frame(h)) : (s \o Frame(h))[i] =
               IF i <= Len(s) THEN s[i] ELSE Frame(h)[i - Len(s)]
      BY <2>1, ConcatProperties
    <3> QED BY <2>1, <3>1
  <2>3. ASSUME NEW j \in l + 1 .. l + FrameLen
        PROVE  t[j].frame = h /\ t[j].pos = j - l
    <3>1. j \in 1 .. l + FrameLen /\ ~(j <= l) /\ j - l \in 1 .. FrameLen
      BY <2>2
    <3> QED BY <2>1, <2>2, <3>1
  <2> QED BY <2>2, <2>3
<1> HIDE DEF t, l
<1>2. Ends(t) = Ends(s) \cup {l + FrameLen}
  <2>1. ASSUME NEW p \in Ends(s) PROVE p \in Ends(t)
    <3>1. /\ p \in FrameLen .. l
          /\ \A j \in p - FrameLen + 1 .. p :
               s[j].frame = s[p].frame /\ s[j].pos = j - (p - FrameLen)
      BY <2>1, EndsAre DEF l
    <3>2. \A j \in p - FrameLen + 1 .. p : t[j] = s[j]
      BY <1>1, <3>1
    <3>3. \A j \in p - FrameLen + 1 .. p :
            t[j].frame = t[p].frame /\ t[j].pos = j - (p - FrameLen)
      <4>1. p \in p - FrameLen + 1 .. p
        BY <1>1, <3>1
      <4> QED BY <3>1, <3>2, <4>1
    <3>4. p \in FrameLen .. Len(t)
      BY <1>1, <3>1
    <3> QED BY <1>1, <3>3, <3>4, EndsAre
  <2>2. l + FrameLen \in Ends(t)
    <3> DEFINE p == l + FrameLen
    <3>1. p \in FrameLen .. Len(t) /\ p - FrameLen = l
      BY <1>1
    <3>2. \A j \in p - FrameLen + 1 .. p :
            t[j].frame = t[p].frame /\ t[j].pos = j - (p - FrameLen)
      BY <1>1, <3>1
    <3> HIDE DEF p
    <3>3. p \in Ends(t)
      BY <1>1, <3>1, <3>2, EndsAre
    <3> QED BY <3>3 DEF p
  <2>3. ASSUME NEW p \in Ends(t), p # l + FrameLen PROVE p \in Ends(s)
    <3>1. /\ p \in FrameLen .. l + FrameLen
          /\ \A j \in p - FrameLen + 1 .. p :
               t[j].frame = t[p].frame /\ t[j].pos = j - (p - FrameLen)
      BY <1>1, <2>3, EndsAre
    <3>2. p <= l
      <4> SUFFICES ASSUME p > l PROVE FALSE
        BY <1>1, <3>1
      <4>1. t[p].pos = p - l /\ t[p].pos = FrameLen
        BY <1>1, <3>1
      <4> QED BY <1>1, <2>3, <3>1, <4>1
    <3>3. \A j \in p - FrameLen + 1 .. p : t[j] = s[j]
      BY <1>1, <3>1, <3>2
    <3>4. \A j \in p - FrameLen + 1 .. p :
            s[j].frame = s[p].frame /\ s[j].pos = j - (p - FrameLen)
      <4>1. p \in p - FrameLen + 1 .. p
        BY <1>1, <3>1
      <4> QED BY <3>1, <3>3, <4>1
    <3>5. p \in FrameLen .. Len(s)
      BY <3>1, <3>2 DEF l
    <3> QED BY <3>4, <3>5, EndsAre
  <2> QED BY <2>1, <2>2, <2>3
<1>3. PICK n \in Nat : \E f : Lists(f, n, Ends(s))
  BY EndsListed
<1>4. PICK f : Lists(f, n, Ends(s))
  BY <1>3
<1> DEFINE g == [i \in 1 .. n + 1 |-> IF i = n + 1 THEN l + FrameLen ELSE f[i]]
<1>5. /\ \A i \in 1 .. n : f[i] \in Ends(s) /\ f[i] \in 1 .. l /\ g[i] = f[i]
      /\ g[n + 1] = l + FrameLen
      /\ \A i \in 1 .. n + 1 : i = n + 1 \/ i \in 1 .. n
  <2>1. f \in [1 .. n -> Ends(s)] /\ Ends(s) \in SUBSET (1 .. l)
    BY <1>4, EndsListed DEF Lists, l
  <2> QED BY <2>1
<1>6. Lists(g, n + 1, Ends(t))
  <2>1. g \in [1 .. n + 1 -> Ends(t)]
    BY <1>2, <1>5
  <2>2. ASSUME NEW i \in 1 .. n + 1, NEW j \in 1 .. n + 1, i < j
        PROVE  g[i] < g[j]
    <3>1. i \in 1 .. n
      BY <2>2
    <3>2. CASE j = n + 1
      <4>1. g[i] \in 1 .. l /\ g[j] = l + FrameLen
        BY <1>5, <3>1, <3>2
      <4> QED BY <1>1, <4>1
    <3>3. CASE j \in 1 .. n
      BY <1>4, <1>5, <2>2, <3>1, <3>3 DEF Lists
    <3> QED BY <1>5, <3>2, <3>3
  <2>3. ASSUME NEW p \in Ends(t) PROVE \E i \in 1 .. n + 1 : g[i] = p
    <3>1. CASE p = l + FrameLen
      BY <1>5, <3>1
    <3>2. CASE p \in Ends(s)
      <4>1. PICK i \in 1 .. n : f[i] = p
        BY <1>4, <3>2 DEF Lists
      <4> QED BY <1>5, <4>1
    <3> QED BY <1>2, <3>1, <3>2
  <2> QED BY <2>1, <2>2, <2>3 DEF Lists
<1> HIDE DEF g
<1>7. /\ Frames(t) = [i \in 1 .. n + 1 |-> t[g[i]].frame]
      /\ Frames(t) \in Seq(Header) /\ Len(Frames(t)) = n + 1
  BY <1>1, <1>6, FramesAre
<1>8. /\ Frames(s) = [i \in 1 .. n |-> s[f[i]].frame]
      /\ Frames(s) \in Seq(Header) /\ Len(Frames(s)) = n
  BY <1>4, FramesAre
<1>9. /\ Append(Frames(s), h) \in Seq(Header) /\ Len(Append(Frames(s), h)) = n + 1
      /\ \A i \in 1 .. n : Append(Frames(s), h)[i] = Frames(s)[i]
      /\ Append(Frames(s), h)[n + 1] = h
  BY <1>8, AppendProperties
<1>10. ASSUME NEW i \in 1 .. n + 1 PROVE Frames(t)[i] = Append(Frames(s), h)[i]
  <2>1. CASE i = n + 1
    BY <1>1, <1>5, <1>7, <1>9, <2>1
  <2>2. CASE i \in 1 .. n
    <3>1. Frames(t)[i] = t[f[i]].frame /\ t[f[i]] = s[f[i]]
      BY <1>1, <1>5, <1>7, <2>2
    <3> QED BY <1>8, <1>9, <2>2, <3>1
  <2> QED BY <1>5, <2>1, <2>2
<1> QED BY <1>7, <1>9, <1>10, SeqEqual DEF t

-----------------------------------------------------------------------------
(* Bytes that are missing.                                                 *)

\* A byte is before another: of an earlier answer, or earlier in the same frame.
Earlier(b, c) ==
  \/ b.frame.n < c.frame.n
  \/ b.frame = c.frame /\ b.pos < c.pos
Strict(s) == \A i, j \in DOMAIN s : i < j => Earlier(s[i], s[j])

\* t is s without the bytes from a + 1 to b, none of which but the last may be
\* an END flag.
Cut(s, t, a, b) ==
  /\ a \in Nat /\ b \in Nat /\ a < b /\ b <= Len(s)
  /\ Len(t) = Len(s) - (b - a)
  /\ \A j \in 1 .. a : t[j] = s[j]
  /\ \A j \in a + 1 .. Len(t) : t[j] = s[j + (b - a)]
  /\ \A j \in a + 1 .. b - 1 : ~SERIAL_END_FLAG(s[j])

\* No frame becomes whole: between two bytes that follow each other in a frame
\* there is none in a strict stream.
LEMMA NothingJoined ==
  ASSUME NEW s \in Seq(Byte), NEW t \in Seq(Byte), NEW a, NEW b,
         Cut(s, t, a, b), Strict(s), NEW q \in Ends(t), q > a
  PROVE  q - FrameLen >= a
<1> USE SizesAssumption
<1>1. /\ a \in Nat /\ b \in Nat /\ a < b /\ b <= Len(s) /\ Len(s) \in Nat
      /\ Len(t) = Len(s) - (b - a)
      /\ \A j \in 1 .. a : t[j] = s[j]
      /\ \A j \in a + 1 .. Len(t) : t[j] = s[j + (b - a)]
  BY DEF Cut
<1>2. /\ q \in FrameLen .. Len(t)
      /\ \A j \in q - FrameLen + 1 .. q :
           t[j].frame = t[q].frame /\ t[j].pos = j - (q - FrameLen)
  BY EndsAre
<1> SUFFICES ASSUME q - FrameLen < a PROVE FALSE
  BY <1>1, <1>2
<1>3. /\ a \in 1 .. a /\ a + 1 \in a + 1 .. Len(t)
      /\ a \in q - FrameLen + 1 .. q /\ a + 1 \in q - FrameLen + 1 .. q
      /\ (a + 1) + (b - a) = b + 1
      /\ a \in 1 .. Len(s) /\ b \in 1 .. Len(s) /\ b + 1 \in 1 .. Len(s)
  BY <1>1, <1>2
<1>4. t[a] = s[a] /\ t[a + 1] = s[b + 1]
  BY <1>1, <1>3
<1>5. /\ s[a].frame = s[b + 1].frame
      /\ s[a].pos = a - (q - FrameLen) /\ s[b + 1].pos = (a + 1) - (q - FrameLen)
  BY <1>2, <1>3, <1>4
<1>6. Earlier(s[a], s[b]) /\ Earlier(s[b], s[b + 1])
  <2>1. DOMAIN s = 1 .. Len(s) /\ a < b /\ b < b + 1
    BY <1>1
  <2> QED BY <1>3, <2>1 DEF Strict
<1>7. /\ s[a].frame.n \in Nat /\ s[b].frame.n \in Nat
      /\ s[b].pos \in Nat
  <2>1. s[a] \in Byte /\ s[b] \in Byte
    BY <1>3
  <2> QED BY <2>1, ByteFields DEF Byte
<1>8. ~(s[a].frame.n < s[b].frame.n) /\ ~(s[b].frame.n < s[b + 1].frame.n)
  BY <1>5, <1>6, <1>7 DEF Earlier
<1>9. s[a].pos < s[b].pos /\ s[b].pos < s[b + 1].pos
  BY <1>6, <1>8 DEF Earlier
<1>10. /\ s[b].pos \in Nat
       /\ a - (q - FrameLen) < s[b].pos /\ s[b].pos < (a + 1) - (q - FrameLen)
  BY <1>5, <1>7, <1>9
<1>11. a \in Nat /\ q \in Nat /\ FrameLen \in Nat
  BY <1>1, <1>2
<1> QED BY <1>10, <1>11

\* What becomes of the ends of whole frames: those in front of the cut stay,
\* those of frames behind it move, and at most one frame has lost a byte.
LEMMA CutEnds ==
  ASSUME NEW s \in Seq(Byte), NEW t \in Seq(Byte), NEW a, NEW b,
         Cut(s, t, a, b), Strict(s)
  PROVE  /\ \A p \in Ends(s) : p <= a \/ p >= b
         /\ \A p \in Ends(s) : p <= a => p \in Ends(t)
         /\ \A p \in Ends(s) : p - FrameLen >= b => p - (b - a) \in Ends(t)
         /\ \A q \in Ends(t) : \/ q <= a /\ q \in Ends(s)
                               \/ /\ q > a /\ q + (b - a) \in Ends(s)
                                  /\ q + (b - a) - FrameLen >= b
         /\ \A p, q \in Ends(s) :
              p >= b /\ p - FrameLen < b /\ q >= b /\ q - FrameLen < b => p = q
<1> USE SizesAssumption
<1>1. /\ a \in Nat /\ b \in Nat /\ a < b /\ b <= Len(s) /\ Len(s) \in Nat
      /\ Len(t) = Len(s) - (b - a)
      /\ \A j \in 1 .. a : t[j] = s[j]
      /\ \A j \in a + 1 .. Len(t) : t[j] = s[j + (b - a)]
      /\ \A j \in a + 1 .. b - 1 : ~SERIAL_END_FLAG(s[j])
  BY DEF Cut
<1>2. \A p \in Ends(s) :
        /\ p \in FrameLen .. Len(s)
        /\ \A j \in p - FrameLen + 1 .. p :
             s[j].frame = s[p].frame /\ s[j].pos = j - (p - FrameLen)
  BY EndsAre
<1>3. \A q \in Ends(t) :
        /\ q \in FrameLen .. Len(t)
        /\ \A j \in q - FrameLen + 1 .. q :
             t[j].frame = t[q].frame /\ t[j].pos = j - (q - FrameLen)
  BY EndsAre
<1>4. ASSUME NEW p \in Ends(s) PROVE p <= a \/ p >= b
  <2>1. p \in Nat /\ p \in p - FrameLen + 1 .. p /\ p - (p - FrameLen) = FrameLen
    BY <1>2
  <2>2. SERIAL_END_FLAG(s[p])
    BY <1>2, <2>1 DEF SERIAL_END_FLAG
  <2> QED BY <1>1, <2>1, <2>2
<1>5. ASSUME NEW p \in Ends(s), p <= a PROVE p \in Ends(t)
  <2>0. p \in FrameLen .. Len(s)
    BY <1>2
  <2>1. /\ p \in FrameLen .. Len(t) /\ p \in p - FrameLen + 1 .. p
        /\ \A j \in p - FrameLen + 1 .. p : t[j] = s[j]
    <3>1. p \in FrameLen .. Len(t) /\ p \in p - FrameLen + 1 .. p
      BY <1>1, <1>5, <2>0
    <3>2. \A j \in p - FrameLen + 1 .. p : j \in 1 .. a
      BY <1>1, <1>5, <2>0
    <3> QED BY <1>1, <3>1, <3>2
  <2>2. \A j \in p - FrameLen + 1 .. p :
          t[j].frame = t[p].frame /\ t[j].pos = j - (p - FrameLen)
    BY <1>2, <2>1
  <2> QED BY <2>1, <2>2, EndsAre
<1>6. ASSUME NEW p \in Ends(s), p - FrameLen >= b PROVE p - (b - a) \in Ends(t)
  <2> DEFINE q == p - (b - a)
  <2>0. p \in FrameLen .. Len(s)
    BY <1>2
  <2>1. q \in FrameLen .. Len(t)
    BY <1>1, <1>6, <2>0
  <2>2. ASSUME NEW j \in q - FrameLen + 1 .. q
        PROVE  /\ t[j] = s[j + (b - a)] /\ j + (b - a) \in p - FrameLen + 1 .. p
               /\ (j + (b - a)) - (p - FrameLen) = j - (q - FrameLen)
    <3>1. j \in a + 1 .. Len(t)
      BY <1>1, <1>6, <2>0
    <3> QED BY <1>1, <2>0, <3>1
  <2>3. q \in q - FrameLen + 1 .. q /\ q + (b - a) = p
    BY <1>1, <2>0
  <2>4. \A j \in q - FrameLen + 1 .. q :
          t[j].frame = t[q].frame /\ t[j].pos = j - (q - FrameLen)
    <3>1. t[q] = s[p]
      BY <2>2, <2>3
    <3>2. ASSUME NEW j \in q - FrameLen + 1 .. q
          PROVE  t[j].frame = t[q].frame /\ t[j].pos = j - (q - FrameLen)
      <4>1. PICK i \in p - FrameLen + 1 .. p :
              t[j] = s[i] /\ i - (p - FrameLen) = j - (q - FrameLen)
        BY <2>2
      <4>2. s[i].frame = s[p].frame /\ s[i].pos = i - (p - FrameLen)
        BY <1>2
      <4> QED BY <3>1, <4>1, <4>2
    <3> QED BY <3>2
  <2> HIDE DEF q
  <2>5. q \in Ends(t)
    BY <2>1, <2>4, EndsAre
  <2> QED BY <2>5 DEF q
<1>7. ASSUME NEW q \in Ends(t), q <= a PROVE q \in Ends(s)
  <2>0. q \in FrameLen .. Len(t)
    BY <1>3
  <2>1. /\ q \in FrameLen .. Len(s) /\ q \in q - FrameLen + 1 .. q
        /\ \A j \in q - FrameLen + 1 .. q : t[j] = s[j]
    <3>1. q \in FrameLen .. Len(s) /\ q \in q - FrameLen + 1 .. q
      BY <1>1, <1>7, <2>0
    <3>2. \A j \in q - FrameLen + 1 .. q : j \in 1 .. a
      BY <1>1, <1>7, <2>0
    <3> QED BY <1>1, <3>1, <3>2
  <2>2. \A j \in q - FrameLen + 1 .. q :
          s[j].frame = s[q].frame /\ s[j].pos = j - (q - FrameLen)
    BY <1>3, <2>1
  <2> QED BY <2>1, <2>2, EndsAre
<1>8. ASSUME NEW q \in Ends(t), q > a
      PROVE  q + (b - a) \in Ends(s) /\ q + (b - a) - FrameLen >= b
  <2> DEFINE p == q + (b - a)
  <2>0. q \in FrameLen .. Len(t) /\ q - FrameLen >= a
    BY <1>3, <1>8, NothingJoined
  <2>1. p \in FrameLen .. Len(s) /\ p - FrameLen >= b
    BY <1>1, <2>0
  <2>2. ASSUME NEW j \in p - FrameLen + 1 .. p
        PROVE  /\ t[j - (b - a)] = s[j] /\ j - (b - a) \in q - FrameLen + 1 .. q
               /\ (j - (b - a)) - (q - FrameLen) = j - (p - FrameLen)
    <3>1. j - (b - a) \in a + 1 .. Len(t) /\ (j - (b - a)) + (b - a) = j
      BY <1>1, <2>0
    <3> QED BY <1>1, <2>0, <3>1
  <2>3. p \in p - FrameLen + 1 .. p /\ p - (b - a) = q
    BY <1>1, <2>0
  <2>4. \A j \in p - FrameLen + 1 .. p :
          s[j].frame = s[p].frame /\ s[j].pos = j - (p - FrameLen)
    <3>1. t[q] = s[p]
      BY <2>2, <2>3
    <3>2. ASSUME NEW j \in p - FrameLen + 1 .. p
          PROVE  s[j].frame = s[p].frame /\ s[j].pos = j - (p - FrameLen)
      <4>1. PICK i \in q - FrameLen + 1 .. q :
              t[i] = s[j] /\ i - (q - FrameLen) = j - (p - FrameLen)
        BY <2>2
      <4>2. t[i].frame = t[q].frame /\ t[i].pos = i - (q - FrameLen)
        BY <1>3
      <4> QED BY <3>1, <4>1, <4>2
    <3> QED BY <3>2
  <2> HIDE DEF p
  <2>5. p \in Ends(s)
    BY <2>1, <2>4, EndsAre
  <2>6. p - FrameLen >= b
    BY <2>1
  <2>7. p = q + (b - a)
    BY DEF p
  <2> QED BY <1>1, <2>0, <2>5, <2>6, <2>7
<1>9. ASSUME NEW p \in Ends(s), NEW q \in Ends(s),
             p >= b, p - FrameLen < b, q >= b, q - FrameLen < b
      PROVE  p = q
  <2>1. p \in Nat /\ q \in Nat
    BY <1>2
  <2>2. b \in p - FrameLen + 1 .. p /\ b \in q - FrameLen + 1 .. q
    BY <1>1, <1>9, <2>1
  <2>3. b - (p - FrameLen) = b - (q - FrameLen)
    BY <1>2, <2>2
  <2> QED BY <1>1, <2>1, <2>3
<1>10. \A q \in Ends(t) : q \in Nat
  BY <1>3
<1>11. \A q \in Ends(t) : \/ q <= a /\ q \in Ends(s)
                          \/ /\ q > a /\ q + (b - a) \in Ends(s)
                             /\ q + (b - a) - FrameLen >= b
  BY <1>1, <1>7, <1>8, <1>10
<1> QED BY <1>4, <1>5, <1>6, <1>9, <1>11

\* A sequence without one element.
Without(q, k) == [i \in 1 .. Len(q) - 1 |-> IF i < k THEN q[i] ELSE q[i + 1]]

LEMMA WithoutIs ==
  ASSUME NEW S, NEW q \in Seq(S), NEW k \in 1 .. Len(q)
  PROVE  /\ Without(q, k) = SubSeq(q, 1, k - 1) \o SubSeq(q, k + 1, Len(q))
         /\ k = 1 => Without(q, k) = Tail(q)
<1> DEFINE n == Len(q)
           w == Without(q, k)
           u == SubSeq(q, 1, k - 1)
           v == SubSeq(q, k + 1, n)
<1>1. n \in Nat /\ n - 1 \in Nat /\ \A i \in 1 .. n : q[i] \in S
  OBVIOUS
<1>2. /\ w \in Seq(S) /\ Len(w) = n - 1
      /\ \A i \in 1 .. n - 1 : w[i] = IF i < k THEN q[i] ELSE q[i + 1]
  <2>1. w = [i \in 1 .. n - 1 |-> IF i < k THEN q[i] ELSE q[i + 1]]
    BY DEF Without
  <2>2. \A i \in 1 .. n - 1 : (IF i < k THEN q[i] ELSE q[i + 1]) \in S
    BY <1>1
  <2>3. w \in [1 .. n - 1 -> S]
    BY <2>1, <2>2
  <2>4. w \in Seq(S)
    BY <1>1, <2>3, SeqDef
  <2>5. Len(w) = n - 1
    BY <1>1, <2>3, <2>4, LenProperties
  <2> HIDE DEF w
  <2> QED BY <2>1, <2>4, <2>5
<1>3. /\ u \in Seq(S) /\ Len(u) = k - 1
      /\ \A i \in 1 .. k - 1 : u[i] = q[i]
  <2>1. k - 1 \in Int /\ \A i \in 1 .. k - 1 : q[i] \in S
    BY <1>1
  <2>2. /\ u \in Seq(S) /\ Len(u) = IF 1 <= k - 1 THEN (k - 1) - 1 + 1 ELSE 0
        /\ \A i \in 1 .. (k - 1) - 1 + 1 : u[i] = q[1 + i - 1]
    BY <2>1, SubSeqProperties
  <2> HIDE DEF u
  <2> QED BY <2>2
<1>4. /\ v \in Seq(S) /\ Len(v) = n - k
      /\ \A i \in 1 .. n - k : v[i] = q[k + i]
  <2>1. k + 1 \in Int /\ n \in Int /\ \A i \in k + 1 .. n : q[i] \in S
    BY <1>1
  <2>2. /\ v \in Seq(S) /\ Len(v) = IF k + 1 <= n THEN n - (k + 1) + 1 ELSE 0
        /\ \A i \in 1 .. n - (k + 1) + 1 : v[i] = q[(k + 1) + i - 1]
    BY <2>1, SubSeqProperties
  <2> HIDE DEF v
  <2> QED BY <1>1, <2>2
<1> HIDE DEF w, u, v
<1>5. w = u \o v
  <2>1. /\ u \o v \in Seq(S) /\ Len(u \o v) = Len(u) + Len(v)
        /\ \A i \in 1 .. Len(u) + Len(v) : (u \o v)[i] =
             IF i <= Len(u) THEN u[i] ELSE v[i - Len(u)]
    BY <1>3, <1>4, ConcatProperties
  <2>2. Len(u \o v) = n - 1 /\ Len(u) + Len(v) = n - 1
    BY <1>1, <1>3, <1>4, <2>1
  <2>3. ASSUME NEW i \in 1 .. n - 1 PROVE w[i] = (u \o v)[i]
    <3>1. CASE i < k
      <4>1. i \in 1 .. k - 1 /\ i <= Len(u)
        BY <1>3, <3>1
      <4> QED BY <1>2, <1>3, <2>1, <2>2, <3>1, <4>1
    <3>2. CASE ~(i < k)
      <4>1. /\ ~(i <= Len(u)) /\ i - Len(u) \in 1 .. n - k
            /\ k + (i - Len(u)) = i + 1
        BY <1>1, <1>3, <3>2
      <4>2. (u \o v)[i] = v[i - Len(u)]
        BY <2>1, <2>2, <4>1
      <4>3. v[i - Len(u)] = q[i + 1]
        BY <1>4, <4>1
      <4> QED BY <1>2, <3>2, <4>2, <4>3
    <3> QED BY <3>1, <3>2
  <2> QED BY <1>2, <2>1, <2>2, <2>3, SeqEqual
<1>6. ASSUME k = 1 PROVE w = Tail(q)
  <2>1. q # <<>>
    OBVIOUS
  <2>2. /\ Tail(q) \in Seq(S) /\ Len(Tail(q)) = n - 1
        /\ \A i \in 1 .. Len(Tail(q)) : Tail(q)[i] = q[i + 1]
    BY <2>1, HeadTailProperties
  <2>3. \A i \in 1 .. n - 1 : w[i] = Tail(q)[i]
    BY <1>2, <1>6, <2>2
  <2> QED BY <1>2, <2>2, <2>3, SeqEqual
<1> QED BY <1>5, <1>6 DEF w, u, v

\* A cut takes one whole frame at most, the first if it is at the start; if the
\* last byte that it takes is the end of a whole frame, it is that one.
LEMMA CutFrames ==
  ASSUME NEW s \in Seq(Byte), NEW t \in Seq(Byte), NEW a, NEW b,
         Cut(s, t, a, b), Strict(s)
  PROVE  \/ Frames(t) = Frames(s) /\ b \notin Ends(s)
         \/ \E k \in 1 .. Len(Frames(s)) :
              /\ Frames(t) = Without(Frames(s), k)
              /\ a = 0 => k = 1
              /\ b \in Ends(s) => Frames(s)[k] = s[b].frame
<1> USE SizesAssumption
<1> DEFINE d == b - a
           Broken(p) == p >= b /\ p - FrameLen < b
<1>1. /\ a \in Nat /\ b \in Nat /\ d \in Nat /\ a < b
      /\ Len(t) = Len(s) - d /\ Len(s) \in Nat
      /\ \A j \in 1 .. a : t[j] = s[j]
      /\ \A j \in a + 1 .. Len(t) : t[j] = s[j + d]
  BY DEF Cut
<1>2. /\ Ends(s) \in SUBSET (1 .. Len(s)) /\ Ends(t) \in SUBSET (1 .. Len(t))
      /\ \A p \in Ends(s) : p \in Nat
      /\ \A p \in Ends(t) : p \in Nat
  BY EndsListed
<1>3. /\ \A p \in Ends(s) : p <= a \/ p >= b
      /\ \A p \in Ends(s) : p <= a => p \in Ends(t)
      /\ \A p \in Ends(s) : p - FrameLen >= b => p - d \in Ends(t)
      /\ \A q \in Ends(t) : \/ q <= a /\ q \in Ends(s)
                            \/ /\ q > a /\ q + d \in Ends(s)
                               /\ q + d - FrameLen >= b
      /\ \A p, q \in Ends(s) : Broken(p) /\ Broken(q) => p = q
  BY CutEnds
<1>4. PICK n \in Nat : \E f : Lists(f, n, Ends(s))
  BY EndsListed
<1>5. PICK f : Lists(f, n, Ends(s))
  BY <1>4
<1>6. /\ \A i \in 1 .. n : f[i] \in Ends(s) /\ f[i] \in Nat
      /\ \A i, j \in 1 .. n : i < j => f[i] < f[j]
      /\ \A p \in Ends(s) : \E i \in 1 .. n : f[i] = p
  BY <1>2, <1>5 DEF Lists
<1>7. /\ Frames(s) = [i \in 1 .. n |-> s[f[i]].frame]
      /\ Frames(s) \in Seq(Header) /\ Len(Frames(s)) = n
  BY <1>5, FramesAre
<1>8. b \in Ends(s) => Broken(b)
  BY <1>1
<1>9. ASSUME NEW p \in Ends(s), p <= a \/ p - FrameLen >= b
      PROVE  LET q == IF p <= a THEN p ELSE p - d
             IN  q \in Ends(t) /\ t[q].frame = s[p].frame
  <2>0. p \in Nat
    BY <1>2
  <2>1. CASE p <= a
    <3>1. p \in Ends(t) /\ p \in 1 .. a
      BY <1>2, <1>3, <2>1
    <3> QED BY <1>1, <2>1, <3>1
  <2>2. CASE ~(p <= a) /\ p - FrameLen >= b
    <3>1. p - d \in Ends(t)
      BY <1>3, <2>2
    <3>2. p - d \in a + 1 .. Len(t) /\ (p - d) + d = p
      BY <1>1, <1>2, <2>0, <2>2, <3>1
    <3>3. t[p - d] = s[p]
      BY <1>1, <3>2
    <3> QED BY <2>2, <3>1, <3>3
  <2> QED BY <1>9, <2>1, <2>2
<1> HIDE DEF d
<1>10. CASE \A p \in Ends(s) : ~Broken(p)
  <2> DEFINE g == [i \in 1 .. n |-> IF f[i] <= a THEN f[i] ELSE f[i] - d]
  <2>1. \A i \in 1 .. n : f[i] <= a \/ f[i] - FrameLen >= b
    <3> SUFFICES ASSUME NEW i \in 1 .. n PROVE f[i] <= a \/ f[i] - FrameLen >= b
      OBVIOUS
    <3>1. f[i] \in Nat /\ (f[i] <= a \/ f[i] >= b) /\ ~Broken(f[i])
      BY <1>3, <1>6, <1>10
    <3> QED BY <1>1, <3>1
  <2>2. \A i \in 1 .. n : g[i] \in Ends(t) /\ t[g[i]].frame = s[f[i]].frame
    BY <1>6, <1>9, <2>1
  <2>3. ASSUME NEW i \in 1 .. n, NEW j \in 1 .. n, i < j
        PROVE  g[i] < g[j]
    <3>1. /\ f[i] < f[j] /\ f[i] \in Nat /\ f[j] \in Nat
          /\ f[i] <= a \/ f[i] - FrameLen >= b
          /\ f[j] <= a \/ f[j] - FrameLen >= b
      BY <1>6, <2>1, <2>3
    <3>2. d = b - a
      BY DEF d
    <3> QED BY <1>1, <3>1, <3>2
  <2>4. ASSUME NEW q \in Ends(t) PROVE \E i \in 1 .. n : g[i] = q
    <3>0. q \in Nat
      BY <1>2
    <3>1. CASE q <= a /\ q \in Ends(s)
      <4>1. PICK i \in 1 .. n : f[i] = q
        BY <1>6, <3>1
      <4> QED BY <3>1, <4>1
    <3>2. CASE q > a /\ q + d \in Ends(s)
      <4>1. PICK i \in 1 .. n : f[i] = q + d
        BY <1>6, <3>2
      <4>2. ~(f[i] <= a) /\ f[i] - d = q
        BY <1>1, <3>0, <3>2, <4>1
      <4> QED BY <4>2
    <3> QED BY <1>3, <3>1, <3>2
  <2> HIDE DEF g
  <2>5. g \in [1 .. n -> Ends(t)]
    BY <2>2 DEF g
  <2>6. Lists(g, n, Ends(t))
    BY <2>3, <2>4, <2>5 DEF Lists
  <2>7. Frames(t) = [i \in 1 .. n |-> t[g[i]].frame]
    BY <2>6, FramesAre
  <2>8. Frames(t) = Frames(s)
    BY <1>7, <2>2, <2>7
  <2> QED BY <1>8, <1>10, <2>8
<1>11. ASSUME NEW p \in Ends(s), Broken(p)
       PROVE  \E k \in 1 .. Len(Frames(s)) :
                /\ Frames(t) = Without(Frames(s), k)
                /\ a = 0 => k = 1
                /\ b \in Ends(s) => Frames(s)[k] = s[b].frame
  <2>1. PICK k \in 1 .. n : f[k] = p
    BY <1>6
  <2> DEFINE e == [i \in 1 .. n - 1 |-> IF i < k THEN f[i] ELSE f[i + 1]]
             g == [i \in 1 .. n - 1 |-> IF e[i] <= a THEN e[i] ELSE e[i] - d]
  <2>2. ASSUME NEW i \in 1 .. n, i # k
        PROVE  /\ i < k => f[i] <= a
               /\ i > k => f[i] - FrameLen >= b
    <3>1. /\ f[i] \in Nat /\ f[k] \in Nat /\ (f[i] <= a \/ f[i] >= b)
          /\ f[i] # f[k]
      BY <1>3, <1>6, <2>2
    <3>2. ~Broken(f[i])
      BY <1>3, <1>6, <1>11, <2>1, <3>1
    <3>3. i < k => f[i] < f[k]
      BY <1>6
    <3>4. i > k => f[k] < f[i]
      BY <1>6
    <3> QED BY <1>1, <1>11, <2>1, <3>1, <3>2, <3>3, <3>4
  <2>3. ASSUME NEW i \in 1 .. n - 1
        PROVE  /\ e[i] \in Ends(s) /\ e[i] \in Nat
               /\ e[i] <= a \/ e[i] - FrameLen >= b
    <3>1. CASE i < k
      <4>1. e[i] = f[i] /\ i \in 1 .. n /\ i # k
        BY <3>1
      <4> QED BY <1>6, <2>2, <3>1, <4>1
    <3>2. CASE ~(i < k)
      <4>1. e[i] = f[i + 1] /\ i + 1 \in 1 .. n /\ i + 1 # k /\ i + 1 > k
        BY <3>2
      <4> QED BY <1>6, <2>2, <4>1
    <3> QED BY <3>1, <3>2
  <2>4. ASSUME NEW i \in 1 .. n - 1, NEW j \in 1 .. n - 1, i < j
        PROVE  e[i] < e[j]
    <3>1. /\ i \in 1 .. n /\ i + 1 \in 1 .. n /\ j \in 1 .. n /\ j + 1 \in 1 .. n
          /\ i < j + 1 /\ i + 1 < j + 1
      BY <2>4
    <3> QED BY <1>6, <2>4, <3>1
  <2>5. ASSUME NEW q \in Ends(s), q # p PROVE \E i \in 1 .. n - 1 : e[i] = q
    <3>1. PICK i \in 1 .. n : f[i] = q
      BY <1>6
    <3>2. i # k
      BY <2>1, <2>5, <3>1
    <3>3. CASE i < k
      <4>1. i \in 1 .. n - 1
        BY <3>3
      <4> QED BY <3>1, <3>3, <4>1
    <3>4. CASE i > k
      <4>1. i - 1 \in 1 .. n - 1 /\ ~(i - 1 < k) /\ (i - 1) + 1 = i
        BY <3>4
      <4>2. e[i - 1] = f[i]
        BY <4>1
      <4> QED BY <3>1, <4>1, <4>2
    <3> QED BY <3>2, <3>3, <3>4
  <2>6. \A i \in 1 .. n - 1 : e[i] = IF i < k THEN f[i] ELSE f[i + 1]
    OBVIOUS
  <2> HIDE DEF e
  <2>7. \A i \in 1 .. n - 1 : g[i] \in Ends(t) /\ t[g[i]].frame = s[e[i]].frame
    BY <1>9, <2>3
  <2>8. ASSUME NEW i \in 1 .. n - 1, NEW j \in 1 .. n - 1, i < j
        PROVE  g[i] < g[j]
    <3>1. /\ e[i] < e[j] /\ e[i] \in Nat /\ e[j] \in Nat
          /\ e[i] <= a \/ e[i] - FrameLen >= b
          /\ e[j] <= a \/ e[j] - FrameLen >= b
      BY <2>3, <2>4, <2>8
    <3>2. d = b - a
      BY DEF d
    <3> QED BY <1>1, <3>1, <3>2
  <2>9. ASSUME NEW q \in Ends(t) PROVE \E i \in 1 .. n - 1 : g[i] = q
    <3>0. q \in Nat /\ p \in Nat
      BY <1>2
    <3>1. CASE q <= a /\ q \in Ends(s)
      <4>1. q # p
        BY <1>1, <1>11, <3>0, <3>1
      <4>2. PICK i \in 1 .. n - 1 : e[i] = q
        BY <2>5, <3>1, <4>1
      <4> QED BY <3>1, <4>2
    <3>2. CASE q > a /\ q + d \in Ends(s) /\ q + d - FrameLen >= b
      <4>1. q + d # p
        BY <1>1, <1>11, <3>0, <3>2
      <4>2. PICK i \in 1 .. n - 1 : e[i] = q + d
        BY <2>5, <3>2, <4>1
      <4>3. ~(e[i] <= a) /\ e[i] - d = q
        BY <1>1, <3>0, <3>2, <4>2
      <4> QED BY <4>3
    <3> QED BY <1>3, <3>1, <3>2
  <2> HIDE DEF g
  <2>10. g \in [1 .. n - 1 -> Ends(t)]
    BY <2>7 DEF g
  <2>11. Lists(g, n - 1, Ends(t)) /\ n - 1 \in Nat
    BY <2>8, <2>9, <2>10 DEF Lists
  <2>12. Frames(t) = [i \in 1 .. n - 1 |-> t[g[i]].frame]
    BY <2>11, FramesAre
  <2>13. \A i \in 1 .. n - 1 : s[e[i]].frame =
           IF i < k THEN Frames(s)[i] ELSE Frames(s)[i + 1]
    <3> SUFFICES ASSUME NEW i \in 1 .. n - 1
                 PROVE  s[e[i]].frame =
                          IF i < k THEN Frames(s)[i] ELSE Frames(s)[i + 1]
      OBVIOUS
    <3>1. i \in 1 .. n /\ i + 1 \in 1 .. n
      OBVIOUS
    <3> QED BY <1>7, <2>6, <3>1
  <2>14. Frames(t) = Without(Frames(s), k)
    <3>1. \A i \in 1 .. n - 1 : t[g[i]].frame =
            IF i < k THEN Frames(s)[i] ELSE Frames(s)[i + 1]
      BY <2>7, <2>13
    <3>2. Without(Frames(s), k) =
            [i \in 1 .. n - 1 |-> IF i < k THEN Frames(s)[i] ELSE Frames(s)[i + 1]]
      BY <1>7 DEF Without
    <3> QED BY <2>12, <3>1, <3>2, Zenon
  <2>15. a = 0 => k = 1
    <3> SUFFICES ASSUME a = 0, k # 1 PROVE FALSE
      OBVIOUS
    <3>1. 1 \in 1 .. n /\ 1 # k /\ 1 < k
      OBVIOUS
    <3>2. f[1] <= 0 /\ f[1] \in 1 .. Len(s)
      BY <1>2, <1>6, <2>2, <3>1
    <3> QED BY <1>1, <3>2
  <2>16. b \in Ends(s) => Frames(s)[k] = s[b].frame
    BY <1>3, <1>7, <1>8, <1>11, <2>1
  <2> QED BY <1>7, <2>14, <2>15, <2>16
<1> QED BY <1>10, <1>11

-----------------------------------------------------------------------------
(* How the stream changes.                                                 *)

\* Bytes are lost at the front of a stream: a packet that is given up or read.
LEMMA FrontCut ==
  ASSUME NEW x \in Seq(Byte), NEW w \in Seq(Byte), x # <<>>,
         \A i \in 1 .. Len(x) - 1 : ~SERIAL_END_FLAG(x[i])
  PROVE  Cut(x \o w, w, 0, Len(x))
<1>1. Len(x) \in Nat /\ Len(x) > 0 /\ Len(w) \in Nat
  OBVIOUS
<1>2. /\ Len(x \o w) = Len(x) + Len(w)
      /\ \A i \in 1 .. Len(x) + Len(w) : (x \o w)[i] =
           IF i <= Len(x) THEN x[i] ELSE w[i - Len(x)]
  BY ConcatProperties
<1>3. ASSUME NEW j \in 0 + 1 .. Len(w)
      PROVE  w[j] = (x \o w)[j + (Len(x) - 0)]
  <2>1. /\ j + (Len(x) - 0) \in 1 .. Len(x) + Len(w)
        /\ ~(j + (Len(x) - 0) <= Len(x)) /\ (j + (Len(x) - 0)) - Len(x) = j
    BY <1>1
  <2> QED BY <1>2, <2>1
<1>4. \A j \in 0 + 1 .. Len(x) - 1 : ~SERIAL_END_FLAG((x \o w)[j])
  <2> SUFFICES ASSUME NEW j \in 0 + 1 .. Len(x) - 1
               PROVE  ~SERIAL_END_FLAG((x \o w)[j])
    OBVIOUS
  <2>1. j \in 1 .. Len(x) + Len(w) /\ j <= Len(x) /\ j \in 1 .. Len(x) - 1
    BY <1>1
  <2>2. (x \o w)[j] = x[j]
    BY <1>2, <2>1
  <2> QED BY <2>1, <2>2
<1>5. /\ 0 < Len(x) /\ Len(x) <= Len(x \o w)
      /\ Len(w) = Len(x \o w) - (Len(x) - 0)
  BY <1>1, <1>2
<1>6. \A j \in 1 .. 0 : w[j] = (x \o w)[j]
  OBVIOUS
<1> QED BY <1>1, <1>3, <1>4, <1>5, <1>6 DEF Cut

\* A byte is lost on the line.
LEMMA LineCut ==
  ASSUME NEW x \in Seq(Byte), NEW y \in Seq(Byte), y # <<>>
  PROVE  Cut(x \o y, x \o Tail(y), Len(x), Len(x) + 1)
<1> DEFINE a == Len(x)
<1>1. /\ a \in Nat /\ Len(y) \in Nat /\ Len(y) > 0
      /\ Tail(y) \in Seq(Byte) /\ Len(Tail(y)) = Len(y) - 1
      /\ \A i \in 1 .. Len(Tail(y)) : Tail(y)[i] = y[i + 1]
  BY HeadTailProperties
<1>2. /\ Len(x \o y) = a + Len(y)
      /\ \A i \in 1 .. a + Len(y) : (x \o y)[i] =
           IF i <= a THEN x[i] ELSE y[i - a]
  BY ConcatProperties
<1>3. /\ Len(x \o Tail(y)) = a + (Len(y) - 1)
      /\ \A i \in 1 .. a + (Len(y) - 1) : (x \o Tail(y))[i] =
           IF i <= a THEN x[i] ELSE Tail(y)[i - a]
  <2>1. /\ Len(x \o Tail(y)) = a + Len(Tail(y))
        /\ \A i \in 1 .. a + Len(Tail(y)) : (x \o Tail(y))[i] =
             IF i <= a THEN x[i] ELSE Tail(y)[i - a]
    BY <1>1, ConcatProperties
  <2> QED BY <1>1, <2>1
<1> HIDE DEF a
<1>4. \A j \in 1 .. a : (x \o Tail(y))[j] = (x \o y)[j]
  BY <1>1, <1>2, <1>3
<1>5. ASSUME NEW j \in a + 1 .. Len(x \o Tail(y))
      PROVE  (x \o Tail(y))[j] = (x \o y)[j + (a + 1 - a)]
  <2>1. /\ j \in 1 .. a + (Len(y) - 1) /\ ~(j <= a)
        /\ j - a \in 1 .. Len(Tail(y)) /\ j + (a + 1 - a) \in 1 .. a + Len(y)
        /\ ~(j + (a + 1 - a) <= a) /\ (j - a) + 1 = (j + (a + 1 - a)) - a
    BY <1>1, <1>3
  <2>2. (x \o Tail(y))[j] = Tail(y)[j - a]
    BY <1>3, <2>1
  <2>3. Tail(y)[j - a] = y[(j - a) + 1]
    BY <1>1, <2>1
  <2>4. (x \o y)[j + (a + 1 - a)] = y[(j + (a + 1 - a)) - a]
    BY <1>2, <2>1
  <2> QED BY <2>1, <2>2, <2>3, <2>4
<1>6. \A j \in a + 1 .. (a + 1) - 1 : ~SERIAL_END_FLAG((x \o y)[j])
  BY <1>1
<1>7. /\ a + 1 \in Nat /\ a < a + 1 /\ a + 1 <= Len(x \o y)
      /\ Len(x \o Tail(y)) = Len(x \o y) - (a + 1 - a)
  BY <1>1, <1>2, <1>3
<1>8. Cut(x \o y, x \o Tail(y), a, a + 1)
  BY <1>1, <1>4, <1>5, <1>6, <1>7 DEF Cut
<1> QED BY <1>8 DEF a

\* A byte that moves from the front of one sequence to the end of another.
LEMMA HeadMoves ==
  ASSUME NEW x \in Seq(Byte), NEW y \in Seq(Byte), y # <<>>
  PROVE  Append(x, Head(y)) \o Tail(y) = x \o y
<1>1. /\ Len(x) \in Nat /\ Len(y) \in Nat /\ Len(y) > 0
      /\ Head(y) \in Byte /\ Head(y) = y[1]
      /\ Tail(y) \in Seq(Byte) /\ Len(Tail(y)) = Len(y) - 1
      /\ \A i \in 1 .. Len(Tail(y)) : Tail(y)[i] = y[i + 1]
  BY HeadTailProperties
<1> DEFINE z == Append(x, Head(y))
<1>2. /\ z \in Seq(Byte) /\ Len(z) = Len(x) + 1
      /\ \A i \in 1 .. Len(x) : z[i] = x[i]
      /\ z[Len(x) + 1] = y[1]
  BY <1>1, AppendProperties
<1> HIDE DEF z
<1>3. /\ z \o Tail(y) \in Seq(Byte) /\ Len(z \o Tail(y)) = Len(x) + Len(y)
      /\ \A i \in 1 .. Len(x) + Len(y) : (z \o Tail(y))[i] =
           IF i <= Len(x) + 1 THEN z[i] ELSE Tail(y)[i - (Len(x) + 1)]
  <2>1. /\ z \o Tail(y) \in Seq(Byte) /\ Len(z \o Tail(y)) = Len(z) + Len(Tail(y))
        /\ \A i \in 1 .. Len(z) + Len(Tail(y)) : (z \o Tail(y))[i] =
             IF i <= Len(z) THEN z[i] ELSE Tail(y)[i - Len(z)]
    BY <1>1, <1>2, ConcatProperties
  <2>2. Len(z) + Len(Tail(y)) = Len(x) + Len(y) /\ Len(z) = Len(x) + 1
    BY <1>1, <1>2
  <2> QED BY <2>1, <2>2, Zenon
<1>4. /\ x \o y \in Seq(Byte) /\ Len(x \o y) = Len(x) + Len(y)
      /\ \A i \in 1 .. Len(x) + Len(y) : (x \o y)[i] =
           IF i <= Len(x) THEN x[i] ELSE y[i - Len(x)]
  BY ConcatProperties
<1>5. ASSUME NEW i \in 1 .. Len(x) + Len(y)
      PROVE  (z \o Tail(y))[i] = (x \o y)[i]
  <2>1. CASE i <= Len(x)
    <3>1. i \in 1 .. Len(x) /\ i <= Len(x) + 1
      BY <1>1, <2>1
    <3> QED BY <1>2, <1>3, <1>4, <2>1, <3>1
  <2>2. CASE i = Len(x) + 1
    <3>1. i <= Len(x) + 1 /\ ~(i <= Len(x)) /\ i - Len(x) = 1
      BY <1>1, <2>2
    <3> QED BY <1>2, <1>3, <1>4, <2>2, <3>1
  <2>3. CASE i > Len(x) + 1
    <3>1. /\ ~(i <= Len(x) + 1) /\ ~(i <= Len(x))
          /\ i - (Len(x) + 1) \in 1 .. Len(Tail(y))
          /\ (i - (Len(x) + 1)) + 1 = i - Len(x)
      BY <1>1, <2>3
    <3>2. (z \o Tail(y))[i] = Tail(y)[i - (Len(x) + 1)]
      BY <1>3, <3>1
    <3>3. Tail(y)[i - (Len(x) + 1)] = y[(i - (Len(x) + 1)) + 1]
      BY <1>1, <3>1
    <3>4. (x \o y)[i] = y[i - Len(x)]
      BY <1>4, <3>1
    <3> QED BY <3>1, <3>2, <3>3, <3>4
  <2>4. i <= Len(x) \/ i = Len(x) + 1 \/ i > Len(x) + 1
    BY <1>1
  <2> QED BY <2>1, <2>2, <2>3, <2>4, Zenon
<1>6. z \o Tail(y) = x \o y
  BY <1>3, <1>4, <1>5, SeqEqual
<1> QED BY <1>6 DEF z

\* A stream stays strict without some of its bytes, and holds no others.
LEMMA CutStrict ==
  ASSUME NEW s \in Seq(Byte), NEW t \in Seq(Byte), NEW a, NEW b,
         Cut(s, t, a, b), Strict(s)
  PROVE  /\ Strict(t)
         /\ \A i \in DOMAIN t : \E j \in DOMAIN s : t[i] = s[j]
<1>1. /\ a \in Nat /\ b \in Nat /\ a < b /\ b <= Len(s)
      /\ Len(t) = Len(s) - (b - a)
      /\ \A j \in 1 .. a : t[j] = s[j]
      /\ \A j \in a + 1 .. Len(t) : t[j] = s[j + (b - a)]
  BY DEF Cut
<1>2. /\ Len(s) \in Nat /\ Len(t) \in Nat
      /\ DOMAIN s = 1 .. Len(s) /\ DOMAIN t = 1 .. Len(t)
  OBVIOUS
<1> DEFINE At(i) == IF i <= a THEN i ELSE i + (b - a)
<1>3. ASSUME NEW i \in DOMAIN t
      PROVE  At(i) \in DOMAIN s /\ t[i] = s[At(i)]
  <2>1. CASE i <= a
    <3>1. i \in 1 .. a /\ i \in 1 .. Len(s)
      BY <1>1, <1>2, <2>1
    <3> QED BY <1>1, <1>2, <2>1, <3>1
  <2>2. CASE ~(i <= a)
    <3>1. i \in a + 1 .. Len(t) /\ i + (b - a) \in 1 .. Len(s)
      BY <1>1, <1>2, <2>2
    <3> QED BY <1>1, <1>2, <2>2, <3>1
  <2> QED BY <2>1, <2>2
<1>4. ASSUME NEW i \in DOMAIN t, NEW j \in DOMAIN t, i < j
      PROVE  Earlier(t[i], t[j])
  <2>1. At(i) < At(j)
    BY <1>1, <1>2, <1>4
  <2> HIDE DEF At
  <2>2. Earlier(s[At(i)], s[At(j)])
    BY <1>3, <2>1 DEF Strict
  <2> QED BY <1>3, <2>2
<1> HIDE DEF At
<1> QED BY <1>3, <1>4 DEF Strict

\* It does with a frame of a later answer at its end.
LEMMA FrameStrict ==
  ASSUME NEW s \in Seq(Byte), Strict(s), NEW h \in Header,
         \A i \in DOMAIN s : s[i].frame.n < h.n
  PROVE  /\ Strict(s \o Frame(h))
         /\ \A i \in DOMAIN (s \o Frame(h)) :
              \/ \E j \in DOMAIN s : (s \o Frame(h))[i] = s[j]
              \/ (s \o Frame(h))[i].frame = h
<1> DEFINE t == s \o Frame(h)
<1>1. /\ Frame(h) \in Seq(Byte) /\ Len(Frame(h)) = FrameLen
      /\ DOMAIN Frame(h) = 1 .. FrameLen
      /\ \A i \in 1 .. FrameLen : Frame(h)[i].frame = h /\ Frame(h)[i].pos = i
  BY FrameType DEF Frame
<1>2. /\ \A i \in DOMAIN s : i \in Nat /\ i <= Len(s)
      /\ \A i \in DOMAIN t :
           \/ i \in DOMAIN s /\ t[i] = s[i]
           \/ /\ i \in Nat /\ i > Len(s) /\ i - Len(s) \in 1 .. FrameLen
              /\ t[i] = Frame(h)[i - Len(s)]
  BY <1>1, ConcatElements
<1> HIDE DEF t
<1>3. Len(s) \in Nat /\ FrameLen \in Nat
  BY SizesAssumption
<1>4. ASSUME NEW i \in DOMAIN t, NEW j \in DOMAIN t, i < j
      PROVE  Earlier(t[i], t[j])
  <2>1. CASE i \in DOMAIN s /\ j \in DOMAIN s
    <3>1. t[i] = s[i] /\ t[j] = s[j]
      BY <1>2, <1>3, <2>1
    <3> QED BY <1>4, <2>1, <3>1 DEF Strict
  <2>2. CASE i \in DOMAIN s /\ j \notin DOMAIN s
    <3>1. t[i] = s[i] /\ t[j].frame = h
      BY <1>1, <1>2, <1>3, <2>2
    <3>2. s[i].frame.n < h.n
      BY <2>2
    <3> QED BY <3>1, <3>2 DEF Earlier
  <2>3. CASE i \notin DOMAIN s /\ j \notin DOMAIN s
    <3>1. /\ i \in Nat /\ j \in Nat
          /\ t[i].frame = h /\ t[i].pos = i - Len(s)
          /\ t[j].frame = h /\ t[j].pos = j - Len(s)
      BY <1>1, <1>2, <2>3
    <3>2. i - Len(s) < j - Len(s)
      BY <1>3, <1>4, <3>1
    <3> QED BY <3>1, <3>2 DEF Earlier
  <2>4. CASE i \notin DOMAIN s /\ j \in DOMAIN s
    BY <1>2, <1>3, <1>4, <2>4
  <2> QED BY <2>1, <2>2, <2>3, <2>4
<1>5. \A i \in DOMAIN t : (\E j \in DOMAIN s : t[i] = s[j]) \/ t[i].frame = h
  BY <1>1, <1>2
<1> QED BY <1>4, <1>5 DEF Strict, t

\* The bytes under way are in the order in which they were sent, before those
\* of requests that the EC has not answered; a packet has its END flag last,
\* and none is kept between invokes.
Streaming ==
  /\ Strict(Stream)
  /\ \A i \in DOMAIN Stream, j \in DOMAIN ec : Stream[i].frame.n < ec[j].n
  /\ \A i \in DOMAIN buf : ~SERIAL_END_FLAG(buf[i])
  /\ pc # "recv" => buf = <<>>

ChannelInv == IInv /\ Streaming

LEMMA BytesJoin ==
  \A u, v, z \in Seq(Byte) : (u \o v) \o z = u \o (v \o z)
BY ConcatAssociative

\* The parts of the stream.
LEMMA StreamType ==
  ASSUME TypeOK
  PROVE  /\ buf \in Seq(Byte) /\ rx_fifo \in Seq(Byte) /\ line \in Seq(Byte)
         /\ buf \o rx_fifo \in Seq(Byte) /\ rx_fifo \o line \in Seq(Byte)
         /\ Stream \in Seq(Byte)
         /\ Stream = buf \o (rx_fifo \o line)
<1>1. buf \in Seq(Byte) /\ rx_fifo \in Seq(Byte) /\ line \in Seq(Byte)
  BY DEF TypeOK
<1>2. buf \o rx_fifo \in Seq(Byte) /\ rx_fifo \o line \in Seq(Byte)
  BY <1>1, ConcatProperties
<1>3. (buf \o rx_fifo) \o line \in Seq(Byte)
  BY <1>1, <1>2, ConcatProperties
<1>4. (buf \o rx_fifo) \o line = buf \o (rx_fifo \o line)
  BY <1>1, ConcatAssociative
<1> QED BY <1>1, <1>2, <1>3, <1>4, Zenon DEF Stream

LEMMA StreamTypeNext ==
  ASSUME TypeOK'
  PROVE  Stream' \in Seq(Byte)
<1>1. buf' \in Seq(Byte) /\ rx_fifo' \in Seq(Byte) /\ line' \in Seq(Byte)
  BY DEF TypeOK
<1>2. buf' \o rx_fifo' \in Seq(Byte)
  BY <1>1, ConcatProperties
<1>3. (buf' \o rx_fifo') \o line' \in Seq(Byte)
  BY <1>1, <1>2, ConcatProperties
<1> QED BY <1>3 DEF Stream

\* Most steps leave it alone.
LEMMA StreamKept ==
  ASSUME UNCHANGED <<buf, rx_fifo, line>>
  PROVE  Stream' = Stream
BY DEF Stream

\* An invoke that gives up drops what it has read.
LEMMA StreamGivenUp ==
  ASSUME TypeOK, Streaming, NEW code, GiveUp(code)
  PROVE  Stream' = Stream \/ Cut(Stream, Stream', 0, Len(buf))
<1> DEFINE w == rx_fifo \o line
<1>1. buf \in Seq(Byte) /\ w \in Seq(Byte) /\ Stream = buf \o w
  BY StreamType
<1>2. Stream' = w
  <2>1. buf' = <<>> /\ rx_fifo' = rx_fifo /\ line' = line
    BY DEF GiveUp, Return, world
  <2>2. Stream' = (<<>> \o rx_fifo) \o line
    BY <2>1 DEF Stream
  <2>3. <<>> \o rx_fifo = rx_fifo
    BY StreamType, ConcatEmptySeq
  <2> QED BY <2>2, <2>3
<1>3. CASE buf = <<>>
  <2>1. Stream = <<>> \o w
    BY <1>1, <1>3, Zenon
  <2>2. <<>> \o w = w
    BY <1>1, ConcatEmptySeq
  <2> QED BY <1>2, <2>1, <2>2, Zenon
<1>4. CASE buf # <<>>
  <2>1. \A i \in 1 .. Len(buf) - 1 : ~SERIAL_END_FLAG(buf[i])
    BY <1>1 DEF Streaming
  <2>2. Cut(buf \o w, w, 0, Len(buf))
    BY <1>1, <1>4, <2>1, FrontCut
  <2> QED BY <1>1, <1>2, <2>2, Zenon
<1> QED BY <1>3, <1>4

\* A byte that is read goes from the FIFO to the packet, or ends it.
LEMMA StreamRead ==
  ASSUME TypeOK, Streaming, read_byte
  PROVE  LET byte == Head(rx_fifo)
             packet == Append(buf, byte)
         IN  /\ byte \in Byte /\ packet \in Seq(Byte)
             /\ Len(packet) = Len(buf) + 1 /\ packet[Len(packet)] = byte
             /\ ~SERIAL_END_FLAG(byte) => Stream' = Stream
             /\ SERIAL_END_FLAG(byte) =>
                  /\ Cut(Stream, Stream', 0, Len(packet))
                  /\ \A i \in 1 .. Len(packet) : Stream[i] = packet[i]
<1> DEFINE byte == Head(rx_fifo)
           packet == Append(buf, byte)
           w == Tail(rx_fifo) \o line
<1>1. /\ buf \in Seq(Byte) /\ rx_fifo \in Seq(Byte) /\ line \in Seq(Byte)
      /\ rx_fifo # <<>> /\ rx_fifo' = Tail(rx_fifo) /\ line' = line
  BY StreamType DEF read_byte
<1>2. byte \in Byte /\ Tail(rx_fifo) \in Seq(Byte)
  BY <1>1, HeadTailProperties
<1>3. /\ packet \in Seq(Byte) /\ Len(packet) = Len(buf) + 1
      /\ \A i \in 1 .. Len(buf) : packet[i] = buf[i]
      /\ packet[Len(buf) + 1] = byte
  BY <1>1, <1>2, AppendProperties
<1>4. packet \o Tail(rx_fifo) = buf \o rx_fifo
  BY <1>1, HeadMoves
<1>5. w \in Seq(Byte)
  BY <1>1, <1>2, ConcatProperties
<1>6. Stream = packet \o w
  <2>1. (packet \o Tail(rx_fifo)) \o line = packet \o w
    BY <1>1, <1>2, <1>3, BytesJoin, Zenon
  <2> QED BY <1>4, <2>1, Zenon DEF Stream
<1>7. ASSUME ~SERIAL_END_FLAG(byte) PROVE Stream' = Stream
  <2>1. buf' = packet
    BY <1>7 DEF read_byte
  <2>2. Stream' = (packet \o Tail(rx_fifo)) \o line
    BY <1>1, <2>1 DEF Stream
  <2> QED BY <1>4, <2>2, Zenon DEF Stream
<1>8. ASSUME SERIAL_END_FLAG(byte)
      PROVE  /\ Cut(Stream, Stream', 0, Len(packet))
             /\ \A i \in 1 .. Len(packet) : Stream[i] = packet[i]
  <2>1. buf' = <<>>
    BY <1>8 DEF read_byte, Return
  <2>2. Stream' = w
    <3>1. Stream' = (<<>> \o Tail(rx_fifo)) \o line
      BY <1>1, <2>1 DEF Stream
    <3>2. <<>> \o Tail(rx_fifo) = Tail(rx_fifo)
      BY <1>2, ConcatEmptySeq
    <3> QED BY <3>1, <3>2
  <2> HIDE DEF packet, w
  <2>3. packet # <<>> /\ \A i \in 1 .. Len(packet) - 1 : ~SERIAL_END_FLAG(packet[i])
    BY <1>1, <1>3 DEF Streaming
  <2>4. Cut(packet \o w, w, 0, Len(packet))
    BY <1>3, <1>5, <2>3, FrontCut
  <2>5. \A i \in 1 .. Len(packet) : (packet \o w)[i] = packet[i]
    <3>1. /\ Len(packet) \in Nat /\ Len(w) \in Nat
          /\ \A i \in 1 .. Len(packet) + Len(w) : (packet \o w)[i] =
               IF i <= Len(packet) THEN packet[i] ELSE w[i - Len(packet)]
      BY <1>3, <1>5, ConcatProperties
    <3> QED BY <3>1
  <2> QED BY <1>6, <2>2, <2>4, <2>5, Zenon
<1>9. packet[Len(packet)] = byte
  BY <1>3
<1> HIDE DEF packet, byte
<1>10. /\ byte \in Byte /\ packet \in Seq(Byte)
       /\ Len(packet) = Len(buf) + 1 /\ packet[Len(packet)] = byte
       /\ ~SERIAL_END_FLAG(byte) => Stream' = Stream
       /\ SERIAL_END_FLAG(byte) =>
            /\ Cut(Stream, Stream', 0, Len(packet))
            /\ \A i \in 1 .. Len(packet) : Stream[i] = packet[i]
  BY <1>2, <1>3, <1>7, <1>8, <1>9
<1> QED BY <1>10, Zenon DEF packet, byte

\* A byte that arrives moves, or is lost.
LEMMA StreamArrives ==
  ASSUME TypeOK, ByteArrives
  PROVE  \/ Stream' = Stream
         \/ \E a, b : Cut(Stream, Stream', a, b)
<1> DEFINE x == buf \o rx_fifo
<1>1. /\ buf \in Seq(Byte) /\ rx_fifo \in Seq(Byte) /\ line \in Seq(Byte)
      /\ x \in Seq(Byte)
  BY StreamType
<1>2. line # <<>> /\ line' = Tail(line) /\ buf' = buf
  BY DEF ByteArrives, relay
<1>3. CASE rx_fifo' = rx_fifo
  <2>1. Stream' = x \o Tail(line) /\ Stream = x \o line
    BY <1>2, <1>3 DEF Stream
  <2>2. Cut(x \o line, x \o Tail(line), Len(x), Len(x) + 1)
    BY <1>1, <1>2, LineCut
  <2>3. Cut(Stream, Stream', Len(x), Len(x) + 1)
    BY <2>1, <2>2, Zenon
  <2> QED BY <2>3
<1>4. CASE rx_fifo' = Append(rx_fifo, Head(line))
  <2>1. Head(line) \in Byte /\ Tail(line) \in Seq(Byte)
    BY <1>1, <1>2, HeadTailProperties
  <2>2. rx_fifo' \in Seq(Byte)
    BY <1>1, <1>4, <2>1, AppendProperties
  <2>3. rx_fifo' \o Tail(line) = rx_fifo \o line
    BY <1>1, <1>2, <1>4, HeadMoves
  <2>4. (buf \o rx_fifo') \o Tail(line) = buf \o (rx_fifo' \o Tail(line))
    BY <1>1, <2>1, <2>2, ConcatAssociative
  <2>5. Stream' = (buf \o rx_fifo') \o Tail(line)
    BY <1>2 DEF Stream
  <2>6. Stream' = buf \o (rx_fifo \o line)
    BY <2>3, <2>4, <2>5, Zenon
  <2> QED BY <2>6, StreamType
<1> QED BY <1>3, <1>4 DEF ByteArrives

\* An answer comes at the end.
LEMMA StreamAnswers ==
  ASSUME TypeOK, EcAnswers
  PROVE  \E kind \in Kind, discriminant \in Discriminant :
           /\ AnswerTo(kind, discriminant, Head(ec)) \in Header
           /\ AnswerTo(kind, discriminant, Head(ec)).n = Head(ec).n
           /\ Stream' = Stream \o Frame(AnswerTo(kind, discriminant, Head(ec)))
<1>1. PICK kind \in Kind, discriminant \in Discriminant :
      line' = line \o Frame(AnswerTo(kind, discriminant, Head(ec)))
  BY DEF EcAnswers
<1> DEFINE h == AnswerTo(kind, discriminant, Head(ec))
<1>2. Head(ec) \in Call
  <2>1. ec \in Seq(Call) /\ ec # <<>>
    BY DEF EcAnswers, TypeOK
  <2> QED BY <2>1, HeadTailProperties
<1>3. h \in Header /\ h.n = Head(ec).n
  BY <1>2, AnswerType
<1> HIDE DEF h
<1>4. Frame(h) \in Seq(Byte)
  BY <1>3, FrameType
<1>5. Stream' = (buf \o rx_fifo) \o (line \o Frame(h))
  BY <1>1 DEF EcAnswers, relay, Stream, h
<1>6. ((buf \o rx_fifo) \o line) \o Frame(h) = (buf \o rx_fifo) \o (line \o Frame(h))
  <2>1. buf \o rx_fifo \in Seq(Byte) /\ line \in Seq(Byte)
    BY StreamType
  <2> DEFINE x == buf \o rx_fifo
  <2> HIDE DEF x
  <2>2. (x \o line) \o Frame(h) = x \o (line \o Frame(h))
    BY <1>4, <2>1, ConcatAssociative DEF x
  <2> QED BY <2>2 DEF x
<1>7. Stream' = Stream \o Frame(h)
  BY <1>5, <1>6, Zenon DEF Stream
<1> QED BY <1>3, <1>7 DEF h

\* What a step makes of the stream keeps its order.
LEMMA StreamBefore ==
  ASSUME TypeOK, Streaming, TypeOK', \/ Stream' = Stream
                                     \/ \E a, b : Cut(Stream, Stream', a, b)
  PROVE  /\ Strict(Stream')
         /\ \A i \in DOMAIN Stream' : \E k \in DOMAIN Stream : Stream'[i] = Stream[k]
<1>1. Stream \in Seq(Byte) /\ Strict(Stream)
  BY StreamType DEF Streaming
<1>2. Stream' \in Seq(Byte)
  BY StreamTypeNext
<1>3. CASE Stream' = Stream
  BY <1>1, <1>3
<1>4. ASSUME NEW a, NEW b, Cut(Stream, Stream', a, b)
      PROVE  /\ Strict(Stream')
             /\ \A i \in DOMAIN Stream' : \E k \in DOMAIN Stream : Stream'[i] = Stream[k]
  BY <1>1, <1>2, <1>4, CutStrict
<1> QED BY <1>3, <1>4

\* The queue of the EC only loses its first request, except when one is sent.
LEMMA StreamStep ==
  ASSUME ChannelInv, TypeOK', [Next]_vars
  PROVE  Streaming'
<1>0. TypeOK /\ InOrder /\ Streaming
  BY DEF ChannelInv, IInv
<1>a. \A i \in DOMAIN Stream, j \in DOMAIN ec : Stream[i].frame.n < ec[j].n
  BY <1>0 DEF Streaming
<1> DEFINE Kept == \/ Stream' = Stream
                   \/ \E a, b : Cut(Stream, Stream', a, b)
           Buf == /\ \A i \in DOMAIN buf' : ~SERIAL_END_FLAG(buf'[i])
                  /\ pc' # "recv" => buf' = <<>>
           Order == /\ Strict(Stream')
                    /\ \A i \in DOMAIN Stream', j \in DOMAIN ec' :
                         Stream'[i].frame.n < ec'[j].n
<1>b. SUFFICES Order /\ Buf
  BY DEF Streaming, Strict, Earlier, SERIAL_END_FLAG
<1>1. ASSUME Kept, \A j \in DOMAIN ec' : \E k \in DOMAIN ec : ec'[j] = ec[k]
      PROVE  Order
  <2>1. /\ Strict(Stream')
        /\ \A i \in DOMAIN Stream' : \E k \in DOMAIN Stream : Stream'[i] = Stream[k]
    BY <1>0, <1>1, StreamBefore
  <2> QED BY <1>a, <1>1, <2>1
<1>2. ASSUME Kept, ec' = ec PROVE Order
  BY <1>1, <1>2
<1>3. ASSUME UNCHANGED <<buf, pc>> PROVE Buf
  BY <1>0, <1>3 DEF Streaming
<1>4. ASSUME buf' = <<>> PROVE Buf
  BY <1>4
<1> HIDE DEF Order, Buf
<1>5. CASE UNCHANGED vars
  <2>1. UNCHANGED <<buf, rx_fifo, line, pc, ec>>
    BY <1>5 DEF vars, relay, world
  <2> QED BY <1>2, <1>3, <2>1, StreamKept
<1>6. ASSUME NEW command \in Command, invoke_request(command) PROVE Order /\ Buf
  <2>1. UNCHANGED <<buf, rx_fifo, line, ec>> /\ pc = "idle"
    BY <1>6 DEF invoke_request, world
  <2>2. buf' = <<>>
    BY <1>0, <2>1 DEF Streaming
  <2> QED BY <1>2, <1>4, <2>1, <2>2, StreamKept
<1>7. CASE send_packet
  <2>1. /\ pc = "send" /\ buf' = <<>> /\ UNCHANGED <<rx_fifo, line>>
        /\ ec' = Append(ec, request) /\ request \in Call /\ ec \in Seq(Call)
    BY <1>0, <1>7 DEF send_packet, TypeOK
  <2>2. buf = <<>>
    BY <1>0, <2>1 DEF Streaming
  <2>3. Stream' = Stream
    BY <2>1, <2>2, StreamKept
  <2>4. ASSUME NEW i \in DOMAIN Stream PROVE Stream[i].frame.n < request.n
    <3>1. Stream = rx_fifo \o line
      <4>1. Stream = <<>> \o (rx_fifo \o line)
        BY <1>0, <2>2, StreamType
      <4> QED BY <1>0, <4>1, StreamType, ConcatEmptySeq
    <3>2. rx_fifo \in Seq(Byte) /\ line \in Seq(Byte)
      BY <1>0, StreamType
    <3>3. \/ \E k \in DOMAIN rx_fifo : Stream[i] = rx_fifo[k]
          \/ \E k \in DOMAIN line : Stream[i] = line[k]
      BY <3>1, <3>2, ConcatElements
    <3> QED BY <1>0, <2>1, <3>3 DEF InOrder, Sent
  <2>5. \A j \in DOMAIN ec' : (\E k \in DOMAIN ec : ec'[j] = ec[k]) \/ ec'[j] = request
    BY <2>1, AppendElements
  <2>6. Order
    BY <1>0, <1>a, <2>3, <2>4, <2>5 DEF Order, Streaming
  <2> QED BY <1>4, <2>1, <2>6
<1>8. ASSUME NEW code, GiveUp(code) PROVE Order /\ Buf
  <2>1. Kept
    BY <1>0, <1>8, StreamGivenUp
  <2>2. buf' = <<>> /\ ec' = ec
    BY <1>8 DEF GiveUp, Return, world
  <2> QED BY <1>2, <1>4, <2>1, <2>2
<1>9. CASE poll_empty
  <2>1. CASE UNCHANGED <<pc, request, buf, result, gave_up, world>>
    <3>1. UNCHANGED <<buf, rx_fifo, line, pc, ec>>
      BY <2>1 DEF world
    <3> QED BY <1>2, <1>3, <3>1, StreamKept
  <2> QED BY <1>8, <1>9, <2>1 DEF poll_empty
<1>10. CASE rx_packet_full
  BY <1>8, <1>10 DEF rx_packet_full
<1>11. CASE read_byte
  <2> DEFINE byte == Head(rx_fifo)
             packet == Append(buf, byte)
  <2>1. /\ byte \in Byte
        /\ ~SERIAL_END_FLAG(byte) => Stream' = Stream
        /\ SERIAL_END_FLAG(byte) => Cut(Stream, Stream', 0, Len(packet))
    BY <1>0, <1>11, StreamRead
  <2>2. Kept
    BY <2>1
  <2>3. Order
    BY <1>2, <1>11, <2>2 DEF read_byte
  <2>4. CASE SERIAL_END_FLAG(byte)
    <3>1. buf' = <<>>
      BY <1>11, <2>4 DEF read_byte, Return
    <3> QED BY <1>4, <2>3, <3>1
  <2>5. CASE ~SERIAL_END_FLAG(byte)
    <3>1. buf' = packet /\ pc' = "recv" /\ buf \in Seq(Byte)
      BY <1>0, <1>11, <2>5, StreamType DEF read_byte
    <3>2. \A i \in DOMAIN buf' : \/ i \in DOMAIN buf /\ buf'[i] = buf[i]
                                 \/ buf'[i] = byte
      BY <2>1, <3>1, AppendElements
    <3>3. Buf
      BY <1>0, <2>5, <3>1, <3>2 DEF Streaming, Buf
    <3> QED BY <2>3, <3>3
  <2> QED BY <2>4, <2>5
<1>c. ASSUME ec # <<>>, ec' = Tail(ec)
      PROVE  /\ Head(ec) = ec[1] /\ 1 \in DOMAIN ec
             /\ \A j \in DOMAIN ec' : \E k \in DOMAIN ec : 1 < k /\ ec'[j] = ec[k]
  BY <1>0, <1>c, TailElements DEF TypeOK
<1>12. CASE EcAnswers
  <2>1. UNCHANGED <<buf, pc>> /\ ec # <<>> /\ ec' = Tail(ec)
    BY <1>12 DEF EcAnswers, relay
  <2>2. PICK kind \in Kind, discriminant \in Discriminant :
          /\ AnswerTo(kind, discriminant, Head(ec)) \in Header
          /\ AnswerTo(kind, discriminant, Head(ec)).n = Head(ec).n
          /\ Stream' = Stream \o Frame(AnswerTo(kind, discriminant, Head(ec)))
    BY <1>0, <1>12, StreamAnswers
  <2> DEFINE h == AnswerTo(kind, discriminant, Head(ec))
  <2>3. h \in Header /\ h.n = ec[1].n /\ Stream' = Stream \o Frame(h)
    BY <1>c, <2>1, <2>2
  <2> HIDE DEF h
  <2>4. \A i \in DOMAIN Stream : Stream[i].frame.n < h.n
    BY <1>a, <1>c, <2>1, <2>3
  <2>5. Stream \in Seq(Byte) /\ Strict(Stream)
    BY <1>0, StreamType DEF Streaming
  <2>6. /\ Strict(Stream \o Frame(h))
        /\ \A i \in DOMAIN (Stream \o Frame(h)) :
             \/ \E j \in DOMAIN Stream : (Stream \o Frame(h))[i] = Stream[j]
             \/ (Stream \o Frame(h))[i].frame = h
    BY <2>3, <2>4, <2>5, FrameStrict
  <2>7. \A j \in DOMAIN ec' : h.n < ec'[j].n /\ \E k \in DOMAIN ec : ec'[j] = ec[k]
    <3> SUFFICES ASSUME NEW j \in DOMAIN ec'
                 PROVE  h.n < ec'[j].n /\ \E k \in DOMAIN ec : ec'[j] = ec[k]
      OBVIOUS
    <3>1. PICK k \in DOMAIN ec : 1 < k /\ ec'[j] = ec[k]
      BY <1>c, <2>1
    <3>2. ec[1].n < ec[k].n
      BY <1>0, <1>c, <2>1, <3>1 DEF InOrder
    <3> QED BY <2>3, <3>1, <3>2
  <2>8. ASSUME NEW i \in DOMAIN Stream', NEW j \in DOMAIN ec'
        PROVE  Stream'[i].frame.n < ec'[j].n
    <3>1. CASE \E k \in DOMAIN Stream : Stream'[i] = Stream[k]
      BY <1>a, <2>7, <3>1
    <3>2. CASE Stream'[i].frame = h
      BY <2>7, <3>2
    <3> QED BY <2>3, <2>6, <3>1, <3>2
  <2>9. Order
    BY <2>3, <2>6, <2>8 DEF Order
  <2> QED BY <1>3, <2>1, <2>9
<1>13. CASE EcDrops
  <2>1. UNCHANGED <<buf, rx_fifo, line, pc>> /\ ec # <<>> /\ ec' = Tail(ec)
    BY <1>13 DEF EcDrops, relay
  <2> QED BY <1>1, <1>3, <1>c, <2>1, StreamKept
<1>14. CASE ByteArrives
  <2>1. UNCHANGED <<buf, pc, ec>>
    BY <1>14 DEF ByteArrives, relay
  <2>2. Kept
    BY <1>0, <1>14, StreamArrives
  <2> QED BY <1>2, <1>3, <2>1, <2>2
<1>15. CASE TxFills \/ TxDrains
  <2>1. UNCHANGED <<buf, rx_fifo, line, pc, ec>>
    BY <1>15 DEF TxFills, TxDrains, relay
  <2> QED BY <1>2, <1>3, <2>1, StreamKept
<1> QED
  BY <1>5, <1>6, <1>7, <1>9, <1>10, <1>11, <1>12, <1>13, <1>14, <1>15
  DEF Next, Relay, World

-----------------------------------------------------------------------------
(* The channel.                                                            *)

LEMMA InFlightNext == InFlight' = Frames(Stream')
BY DEF InFlight, Frames, Sorted, Ends, Frame, Stream

LEMMA FlightKept ==
  ASSUME Stream' = Stream
  PROVE  InFlight' = InFlight
<1>1. InFlight = Frames(Stream)
  BY DEF InFlight
<1> QED BY <1>1, InFlightNext

\* Bytes that are dropped or lost are one answer less, or none.
LEMMA FlightCut ==
  ASSUME TypeOK, TypeOK', Streaming, NEW a, NEW b, Cut(Stream, Stream', a, b)
  PROVE  /\ \/ InFlight' = InFlight
            \/ \E k \in DOMAIN InFlight :
                 InFlight' = SubSeq(InFlight, 1, k - 1)
                               \o SubSeq(InFlight, k + 1, Len(InFlight))
         /\ a = 0 => \/ InFlight' = InFlight
                     \/ InFlight # <<>> /\ InFlight' = Tail(InFlight)
         /\ a = 0 /\ b \in Ends(Stream) =>
              /\ InFlight # <<>> /\ InFlight' = Tail(InFlight)
              /\ Head(InFlight) = Stream[b].frame
<1>1. Stream \in Seq(Byte) /\ Strict(Stream)
  BY StreamType DEF Streaming
<1>2. Stream' \in Seq(Byte)
  BY StreamTypeNext
<1> DEFINE q == InFlight
<1>3. q = Frames(Stream) /\ InFlight' = Frames(Stream')
  BY InFlightNext DEF InFlight
<1>4. q \in Seq(Header)
  <2>1. PICK n \in Nat : \E f : Lists(f, n, Ends(Stream))
    BY <1>1, EndsListed
  <2>2. Frames(Stream) \in Seq(Header)
    BY <1>1, <2>1, FramesAre
  <2> QED BY <1>3, <2>2, Zenon
<1>5. \/ Frames(Stream') = Frames(Stream) /\ b \notin Ends(Stream)
      \/ \E k \in 1 .. Len(Frames(Stream)) :
           /\ Frames(Stream') = Without(Frames(Stream), k)
           /\ a = 0 => k = 1
           /\ b \in Ends(Stream) => Frames(Stream)[k] = Stream[b].frame
  BY <1>1, <1>2, CutFrames
<1> HIDE DEF q
<1>6. CASE InFlight' = q /\ b \notin Ends(Stream)
  BY <1>6 DEF q
<1>7. ASSUME NEW k \in 1 .. Len(q), InFlight' = Without(q, k), a = 0 => k = 1,
             b \in Ends(Stream) => q[k] = Stream[b].frame
      PROVE  /\ \E i \in DOMAIN q :
                  InFlight' = SubSeq(q, 1, i - 1) \o SubSeq(q, i + 1, Len(q))
             /\ a = 0 => q # <<>> /\ InFlight' = Tail(q)
             /\ a = 0 /\ b \in Ends(Stream) => Head(q) = Stream[b].frame
  <2>1. /\ Without(q, k) = SubSeq(q, 1, k - 1) \o SubSeq(q, k + 1, Len(q))
        /\ k = 1 => Without(q, k) = Tail(q)
    BY <1>4, WithoutIs
  <2>2. k \in DOMAIN q /\ q # <<>> /\ Head(q) = q[1]
    BY <1>4
  <2>3. \E i \in DOMAIN q :
          InFlight' = SubSeq(q, 1, i - 1) \o SubSeq(q, i + 1, Len(q))
    BY <1>7, <2>1, <2>2, Zenon
  <2> QED BY <1>7, <2>1, <2>2, <2>3
<1> QED BY <1>3, <1>5, <1>6, <1>7 DEF q

\* An invoke that returns an error of its own, having dropped bytes or not,
\* fails in the channel.
LEMMA FailStep ==
  ASSUME ChannelInv, TypeOK', pc = "recv", NEW code \in EcRelayError \ {"Remote"},
         Return(code, 0, "none", 0), UNCHANGED <<request, ec>>,
         Stream' = Stream \/ \E b : Cut(Stream, Stream', 0, b)
  PROVE  Channel!Next
<1>1. TypeOK /\ Streaming
  BY DEF ChannelInv, IInv
<1>2. InFlight' = InFlight \/ (InFlight # <<>> /\ InFlight' = Tail(InFlight))
  <2>1. CASE Stream' = Stream
    BY <2>1, FlightKept
  <2>2. ASSUME NEW b, Cut(Stream, Stream', 0, b)
        PROVE  InFlight' = InFlight \/ (InFlight # <<>> /\ InFlight' = Tail(InFlight))
    BY <1>1, <2>2, FlightCut
  <2> QED BY <2>1, <2>2
<1>3. Seen' = "Err" /\ result'.n = 0 /\ result'.remote = 0 /\ pc' = "idle"
  BY DEF Return, Seen, EcRelayError
<1>4. Channel!Fail
  BY <1>2, <1>3 DEF Channel!Fail
<1> QED BY <1>4 DEF Channel!Next, Channel!Return

\* A packet that is decoded is the oldest answer in flight, and is taken from
\* the channel.
LEMMA ReceiveStep ==
  ASSUME ChannelInv, TypeOK', read_byte, SERIAL_END_FLAG(Head(rx_fifo)),
         deserialize_packet(Append(buf, Head(rx_fifo))),
         LET code == parse_response(request.command, Head(rx_fifo).frame) IN
         Return(code, Head(rx_fifo).frame.n, Head(rx_fifo).frame.body,
                RemoteCode(code, Head(rx_fifo).frame))
  PROVE  Channel!Next
<1> USE SizesAssumption
<1> DEFINE byte == Head(rx_fifo)
           packet == Append(buf, byte)
           h == byte.frame
           code == parse_response(request.command, h)
<1>1. TypeOK /\ Streaming
  BY DEF ChannelInv, IInv
<1>2. /\ byte \in Byte /\ packet \in Seq(Byte) /\ packet[Len(packet)] = byte
      /\ Cut(Stream, Stream', 0, Len(packet))
      /\ \A i \in 1 .. Len(packet) : Stream[i] = packet[i]
  BY <1>1, StreamRead
<1>3. Len(packet) = FrameLen /\ packet = Frame(packet[FrameLen].frame)
  BY DEF deserialize_packet
<1>4. /\ pc = "recv" /\ pc' = "idle" /\ UNCHANGED <<request, ec>>
      /\ result'.code = code /\ result'.n = h.n
      /\ result'.remote = RemoteCode(code, h)
  BY DEF read_byte, Return
<1> HIDE DEF packet, h, code
<1>5. Stream \in Seq(Byte) /\ FrameLen <= Len(Stream) /\ Stream[FrameLen].frame = h
  <2>1. Stream \in Seq(Byte) /\ Len(packet) <= Len(Stream)
    BY <1>1, <1>2, StreamType DEF Cut
  <2>2. FrameLen \in 1 .. Len(packet) /\ Stream[FrameLen] = byte
    BY <1>2, <1>3
  <2> QED BY <1>3, <2>1, <2>2 DEF h
<1>6. FrameLen \in Ends(Stream)
  <2>1. FrameLen \in FrameLen .. Len(Stream)
    BY <1>5
  <2>2. packet = Frame(h)
    BY <1>2, <1>3 DEF h
  <2>3. ASSUME NEW i \in 1 .. FrameLen
        PROVE  Stream[FrameLen - FrameLen + i] = Frame(Stream[FrameLen].frame)[i]
    <3>1. FrameLen - FrameLen + i = i
      OBVIOUS
    <3>2. Stream[i] = packet[i]
      BY <1>2, <1>3
    <3> QED BY <1>5, <2>2, <3>1, <3>2, Zenon
  <2> QED BY <2>1, <2>3 DEF Ends
<1>7. /\ InFlight # <<>> /\ InFlight' = Tail(InFlight)
      /\ Head(InFlight) = h
  <2>1. Cut(Stream, Stream', 0, FrameLen)
    BY <1>2, <1>3
  <2> QED BY <1>1, <1>5, <1>6, <2>1, FlightCut
<1>8. /\ Seen' \in {"Ok", "Remote", "Err"}
      /\ Seen' = "Ok" => code = "Ok"
      /\ Seen' = "Remote" <=> code = "Remote"
  BY <1>4, ParseType DEF Seen, EcRelayError, code
<1>9. code = "Ok" => Channel!Fits(h)
  BY DEF code, parse_response, validate_response, Channel!Fits, Channel!FromService
<1>10. code = "Remote" => Channel!FromService(h) /\ h.is_error
  BY DEF code, parse_response, validate_response, take_array, Channel!FromService
<1>11. result'.remote = Channel!RemoteCode(Seen', h)
  BY <1>4, <1>8 DEF RemoteCode, Channel!RemoteCode
<1>12. Channel!Receive
  BY <1>4, <1>7, <1>8, <1>9, <1>10, <1>11 DEF Channel!Receive
<1> QED BY <1>12 DEF Channel!Next, Channel!Return

\* Every step of the relay, the line and the EC is one of the channel, or
\* none that the channel sees.
LEMMA ChannelStep ==
  ASSUME ChannelInv, TypeOK', [Next]_vars
  PROVE  [Channel!Next]_(Channel!vars)
<1>0. TypeOK /\ Streaming
  BY DEF ChannelInv, IInv
<1>1. ASSUME UNCHANGED <<pc, request, result, ec>>, Stream' = Stream
      PROVE  UNCHANGED Channel!vars
  BY <1>1, FlightKept DEF Channel!vars, Seen
<1>2. CASE UNCHANGED vars
  <2>1. UNCHANGED <<pc, request, result, ec, buf, rx_fifo, line>>
    BY <1>2 DEF vars, relay, world
  <2> QED BY <1>1, <2>1, StreamKept
<1>3. ASSUME NEW command \in Command, invoke_request(command)
      PROVE  Channel!Next
  <2>1. UNCHANGED <<buf, rx_fifo, line, ec>>
    BY <1>3 DEF invoke_request, world
  <2>2. InFlight' = InFlight
    BY <2>1, StreamKept, FlightKept
  <2>3. Channel!Invoke(command)
    BY <1>3, <2>1, <2>2
    DEF invoke_request, Channel!Invoke, Channel!NoOutcome, NoResult, Seen
  <2> QED BY <2>3 DEF Channel!Next
<1>4. CASE send_packet
  <2>1. UNCHANGED <<buf, rx_fifo, line>>
    BY <1>0, <1>4 DEF send_packet, Streaming
  <2>2. InFlight' = InFlight
    BY <2>1, StreamKept, FlightKept
  <2>3. Channel!Send
    BY <1>4, <2>2 DEF send_packet, Channel!Send, Seen
  <2> QED BY <2>3 DEF Channel!Next
<1>5. ASSUME pc = "recv", NEW code \in {"TransportReadTimeout", "MctpRecvIncomplete"},
             GiveUp(code)
      PROVE  Channel!Next
  <2>1. Stream' = Stream \/ Cut(Stream, Stream', 0, Len(buf))
    BY <1>0, <1>5, StreamGivenUp
  <2>2. Return(code, 0, "none", 0) /\ UNCHANGED <<request, ec>>
    BY <1>5 DEF GiveUp, world
  <2>3. code \in EcRelayError \ {"Remote"}
    BY DEF EcRelayError
  <2> QED BY <1>5, <2>1, <2>2, <2>3, FailStep
<1>6. CASE poll_empty
  <2>1. CASE UNCHANGED <<pc, request, buf, result, gave_up, world>>
    <3>1. UNCHANGED <<pc, request, result, ec, buf, rx_fifo, line>>
      BY <2>1 DEF world
    <3> QED BY <1>1, <3>1, StreamKept
  <2>2. CASE GiveUp("TransportReadTimeout")
    BY <1>5, <1>6, <2>2 DEF poll_empty
  <2> QED BY <1>6, <2>1, <2>2 DEF poll_empty
<1>7. CASE rx_packet_full
  BY <1>5, <1>7 DEF rx_packet_full
<1>8. CASE read_byte
  <2> DEFINE byte == Head(rx_fifo)
             packet == Append(buf, byte)
  <2>1. /\ ~SERIAL_END_FLAG(byte) => Stream' = Stream
        /\ SERIAL_END_FLAG(byte) => Cut(Stream, Stream', 0, Len(packet))
    BY <1>0, <1>8, StreamRead
  <2>2. pc = "recv" /\ UNCHANGED <<request, ec>>
    BY <1>8 DEF read_byte
  <2>3. CASE ~SERIAL_END_FLAG(byte)
    <3>1. UNCHANGED <<pc, result>>
      BY <1>8, <2>3 DEF read_byte
    <3> QED BY <1>1, <2>1, <2>2, <2>3, <3>1
  <2>4. CASE SERIAL_END_FLAG(byte) /\ ~deserialize_packet(packet)
    <3>1. Return("MctpDecode", 0, "none", 0)
      BY <1>8, <2>4 DEF read_byte
    <3>2. "MctpDecode" \in EcRelayError \ {"Remote"}
      BY DEF EcRelayError
    <3>3. \E b : Cut(Stream, Stream', 0, b)
      BY <2>1, <2>4
    <3> QED BY <2>2, <3>1, <3>2, <3>3, FailStep
  <2>5. CASE SERIAL_END_FLAG(byte) /\ deserialize_packet(packet)
    <3>1. LET code == parse_response(request.command, byte.frame) IN
          Return(code, byte.frame.n, byte.frame.body, RemoteCode(code, byte.frame))
      BY <1>8, <2>5 DEF read_byte
    <3> QED BY <1>8, <2>5, <3>1, ReceiveStep
  <2> QED BY <2>3, <2>4, <2>5
<1>9. CASE EcAnswers
  <2>1. /\ UNCHANGED <<pc, request, result>> /\ ec # <<>> /\ ec' = Tail(ec)
    BY <1>9 DEF EcAnswers, relay
  <2>2. PICK kind \in Kind, discriminant \in Discriminant :
          /\ AnswerTo(kind, discriminant, Head(ec)) \in Header
          /\ Stream' = Stream \o Frame(AnswerTo(kind, discriminant, Head(ec)))
    BY <1>0, <1>9, StreamAnswers
  <2> DEFINE h == AnswerTo(kind, discriminant, Head(ec))
  <2> HIDE DEF h
  <2>3. h \in Header /\ Stream' = Stream \o Frame(h)
    BY <2>2 DEF h
  <2>4. Frames(Stream \o Frame(h)) = Append(Frames(Stream), h)
    BY <1>0, <2>3, StreamType, FrameAppended
  <2>5. InFlight' = Append(InFlight, h)
    <3>1. InFlight = Frames(Stream)
      BY DEF InFlight
    <3> QED BY <2>3, <2>4, <3>1, InFlightNext, Zenon
  <2>6. h = Channel!AnswerTo(kind, discriminant, Head(ec))
    BY DEF h, AnswerTo, Channel!AnswerTo
  <2>7. Channel!Reply(kind, discriminant)
    BY <2>1, <2>5, <2>6 DEF Channel!Reply, Seen
  <2> QED BY <2>7 DEF Channel!Next
<1>10. CASE EcDrops
  <2>1. UNCHANGED <<pc, request, result, buf, rx_fifo, line>>
        /\ ec # <<>> /\ ec' = Tail(ec)
    BY <1>10 DEF EcDrops, relay
  <2>2. InFlight' = InFlight
    BY <2>1, StreamKept, FlightKept
  <2>3. Channel!Forget
    BY <2>1, <2>2 DEF Channel!Forget, Seen
  <2> QED BY <2>3 DEF Channel!Next
<1>11. CASE ByteArrives
  <2>1. UNCHANGED <<pc, request, result, ec>>
    BY <1>11 DEF ByteArrives, relay
  <2>2. CASE Stream' = Stream
    BY <1>1, <2>1, <2>2
  <2>3. ASSUME NEW a, NEW b, Cut(Stream, Stream', a, b)
        PROVE  [Channel!Next]_(Channel!vars)
    <3>1. CASE InFlight' = InFlight
      BY <2>1, <3>1 DEF Channel!vars, Seen
    <3>2. CASE \E k \in DOMAIN InFlight :
                 InFlight' = SubSeq(InFlight, 1, k - 1)
                               \o SubSeq(InFlight, k + 1, Len(InFlight))
      <4>1. Channel!Lose
        BY <2>1, <3>2 DEF Channel!Lose, Seen
      <4> QED BY <4>1 DEF Channel!Next
    <3> QED BY <1>0, <2>3, <3>1, <3>2, FlightCut
  <2> QED BY <1>0, <1>11, <2>2, <2>3, StreamArrives
<1>12. CASE TxFills \/ TxDrains
  <2>1. UNCHANGED <<pc, request, result, ec, buf, rx_fifo, line>>
    BY <1>12 DEF TxFills, TxDrains, relay
  <2> QED BY <1>1, <2>1, StreamKept
<1> QED
  BY <1>2, <1>3, <1>4, <1>6, <1>7, <1>8, <1>9, <1>10, <1>11, <1>12
  DEF Next, Relay, World

\* At first nothing is in flight.
LEMMA InitFlight ==
  ASSUME Init
  PROVE  Streaming /\ Channel!Init
<1>1. buf = <<>> /\ rx_fifo = <<>> /\ line = <<>> /\ ec = <<>>
  BY DEF Init
<1>2. <<>> \in Seq(Byte) /\ Len(<<>>) = 0 /\ <<>> \o <<>> = <<>>
  BY EmptySeq, ConcatEmptySeq
<1>3. Stream = <<>>
  BY <1>1, <1>2, Zenon DEF Stream
<1>4. DOMAIN Stream = {} /\ DOMAIN buf = {} /\ DOMAIN ec = {}
  BY <1>1, <1>3
<1>5. Streaming
  BY <1>1, <1>4 DEF Streaming, Strict
<1>6. InFlight = <<>>
  <2>1. Stream \in Seq(Byte) /\ Len(Stream) = 0
    BY <1>2, <1>3
  <2>2. Ends(Stream) = {}
    <3>1. Ends(Stream) \in SUBSET (1 .. Len(Stream))
      BY <2>1, EndsListed
    <3> QED BY <2>1, <3>1
  <2> DEFINE f == [i \in 1 .. 0 |-> 0]
  <2>3. Lists(f, 0, Ends(Stream)) /\ 0 \in Nat
    BY <2>2 DEF Lists
  <2> HIDE DEF f
  <2>4. Frames(Stream) \in Seq(Header) /\ Len(Frames(Stream)) = 0
    BY <2>1, <2>3, FramesAre
  <2> QED BY <2>4, EmptySeq DEF InFlight
<1>7. Channel!Init
  BY <1>1, <1>6 DEF Init, Channel!Init, Channel!NoOutcome, NoResult, Seen
<1> QED BY <1>5, <1>7

\* The relay implements the channel of whole answers: over a line that loses
\* any byte, an answer is lost as a whole or comes as it was sent, in order and
\* once, and invoke succeeds only with the oldest one in flight.
THEOREM ChannelSafety == Spec => Channel!Safety
<1>1. Init => ChannelInv /\ Channel!Init
  BY InitInv, InitFlight DEF ChannelInv
<1>2. ChannelInv /\ [Next]_vars => ChannelInv'
  <2> SUFFICES ASSUME ChannelInv, [Next]_vars PROVE ChannelInv'
    OBVIOUS
  <2>1. IInv'
    BY InvStep DEF ChannelInv
  <2>2. Streaming'
    BY <2>1, StreamStep DEF IInv
  <2> QED BY <2>1, <2>2 DEF ChannelInv
<1>3. ChannelInv /\ ChannelInv' /\ [Next]_vars => [Channel!Next]_(Channel!vars)
  BY ChannelStep DEF ChannelInv, IInv
<1> QED BY <1>1, <1>2, <1>3, PTL DEF Spec, Channel!Safety

=============================================================================
