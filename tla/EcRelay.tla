------------------------------ MODULE EcRelay ------------------------------
(***************************************************************************)
(* The relay to the embedded controller: EcRelay::invoke over              *)
(* MctpSerialTransport (ec-service-lib/src/services/ec_relay.rs) over the  *)
(* PL011 driver (qemu-sp-uart/src/lib.rs), with the EC at the other end.   *)
(*                                                                         *)
(* The relay writes one request, then reads bytes until an END flag or     *)
(* until the poll budget of a byte is used up.  Nothing tells it which     *)
(* request a frame answers, and nothing empties the receive FIFO between   *)
(* requests: an answer that comes after its request was given up is read   *)
(* by a later one.                                                         *)
(*                                                                         *)
(* A definition that stands before another with the same name and a suffix *)
(* (send_packet_twice) is a faulty variant of it, which the properties     *)
(* tell apart from the code; the specification uses none.                  *)
(***************************************************************************)
EXTENDS EcMessages, Sequences, FiniteSets

CONSTANTS
  FrameLen,        \* bytes of a response frame, the END flag included
  RX_PACKET_LEN,   \* size of rx_packet
  RX_POLL_BUDGET,  \* polls of UARTFR per byte
  MaxInvokes       \* bound: requests in a behaviour

ASSUME SizesAssumption ==
  /\ FrameLen \in Nat \ {0}
  /\ RX_PACKET_LEN \in Nat /\ RX_PACKET_LEN >= FrameLen
  /\ RX_POLL_BUDGET \in Nat \ {0}
  /\ MaxInvokes \in Nat

\* Byte pos of the frame that carries a header; the last one is the END flag.
Byte == [frame : Header, pos : 1 .. FrameLen]
SERIAL_END_FLAG(byte) == byte.pos = FrameLen
Frame(h) == [i \in 1 .. FrameLen |-> [frame |-> h, pos |-> i]]

VARIABLES
  pc,         \* where invoke is: "idle", "send" or "recv"
  request,    \* command and number of the current or last invoke
  buf,        \* rx_packet[..filled]
  polls,      \* polls left of the byte being read
  result,     \* what the last invoke returned, n and body of its response, and
              \* the discriminant that Remote carries
  ec,         \* requests the EC has not answered yet, in order of arrival
  line,       \* bytes of responses on their way to the SP
  rx_fifo,    \* bytes in the UART's receive FIFO
  tx_full,    \* UARTFR.TXFF
  gave_up     \* history: invokes that returned without reading an END flag

relay == <<pc, request, buf, polls, result, gave_up>>
world == <<ec, line, rx_fifo, tx_full>>
vars == <<relay, world>>

NoResult == [code |-> "None", n |-> 0, body |-> "none", remote |-> 0]

Init ==
  /\ pc = "idle"
  /\ request \in [command : Command, n : {0}]
  /\ buf = <<>>
  /\ polls = RX_POLL_BUDGET
  /\ result = NoResult
  /\ ec = <<>>
  /\ line = <<>>
  /\ rx_fifo = <<>>
  /\ tx_full = FALSE
  /\ gave_up = 0

-----------------------------------------------------------------------------
(* The relay.                                                              *)

\* The start of invoke_request and of invoke_request_with_response_id.
invoke_request(command) ==
  /\ pc = "idle"
  /\ request.n < MaxInvokes
  /\ pc' = "send"
  /\ request' = [command |-> command, n |-> request.n + 1]
  /\ result' = NoResult
  /\ UNCHANGED <<buf, polls, gave_up, world>>

\* The request is written once TXFF is clear.  Those of the services, 23 bytes at
\* most, fit tx_buf and one packet: serialize_packet does not fail.
send_packet_twice ==
  /\ pc = "send"
  /\ ~tx_full
  /\ ec' = ec \o <<request, request>>
  /\ pc' = "recv"
  /\ buf' = <<>>
  /\ polls' = RX_POLL_BUDGET
  /\ UNCHANGED <<request, result, gave_up, line, rx_fifo, tx_full>>
send_packet ==
  /\ pc = "send"
  /\ ~tx_full
  /\ ec' = Append(ec, request)
  /\ pc' = "recv"
  /\ buf' = <<>>
  /\ polls' = RX_POLL_BUDGET
  /\ UNCHANGED <<request, result, gave_up, line, rx_fifo, tx_full>>

\* invoke returns.
Return(code, n, body, remote) ==
  /\ pc' = "idle"
  /\ result' = [code |-> code, n |-> n, body |-> body, remote |-> remote]
  /\ buf' = <<>>
  /\ polls' = RX_POLL_BUDGET

GiveUp(code) ==
  /\ Return(code, 0, "none", 0)
  /\ gave_up' = gave_up + 1
  /\ UNCHANGED <<request, world>>

\* recv_framed_packet checks the room left before each byte.
buffer_full_late == Len(buf) > RX_PACKET_LEN
buffer_full == Len(buf) >= RX_PACKET_LEN

\* read_byte_bounded finds RXFE set: one poll less, or Timeout.
poll_empty ==
  /\ pc = "recv"
  /\ rx_fifo = <<>>
  /\ ~buffer_full
  /\ \/ /\ polls > 1
        /\ polls' = polls - 1
        /\ UNCHANGED <<pc, request, buf, result, gave_up, world>>
     \/ /\ polls = 1
        /\ GiveUp("TransportReadTimeout")

\* There is no room left.
rx_packet_full ==
  /\ pc = "recv"
  /\ buffer_full
  /\ GiveUp("MctpRecvIncomplete")

\* deserialize_packet accepts the bytes of one frame, all and in order.
deserialize_packet(packet) ==
  Len(packet) = FrameLen /\ packet = Frame(packet[FrameLen].frame)

\* read_byte_bounded returns a byte; at the END flag invoke decodes the packet
\* and returns.
read_byte ==
  /\ pc = "recv"
  /\ rx_fifo # <<>>
  /\ ~buffer_full
  /\ rx_fifo' = Tail(rx_fifo)
  /\ LET byte == Head(rx_fifo)
         packet == Append(buf, byte)
     IN  \/ /\ ~SERIAL_END_FLAG(byte)
            /\ buf' = packet
            /\ polls' = RX_POLL_BUDGET
            /\ UNCHANGED <<pc, result>>
         \/ /\ SERIAL_END_FLAG(byte)
            /\ ~deserialize_packet(packet)
            /\ Return("MctpDecode", 0, "none", 0)
         \/ /\ SERIAL_END_FLAG(byte)
            /\ deserialize_packet(packet)
            /\ LET code == parse_response(request.command, byte.frame) IN
               Return(code, byte.frame.n, byte.frame.body,
                      RemoteCode(code, byte.frame))
  /\ UNCHANGED <<request, gave_up, ec, line, tx_full>>

Relay == send_packet \/ poll_empty \/ rx_packet_full \/ read_byte

-----------------------------------------------------------------------------
(* The world: the EC, the line and the UART's FIFOs.                       *)

\* The EC answers in order.
EcAnswers ==
  /\ ec # <<>>
  /\ \E kind \in Kind, discriminant \in Discriminant :
       line' = line \o Frame(AnswerTo(kind, discriminant, Head(ec)))
  /\ ec' = Tail(ec)
  /\ UNCHANGED <<relay, rx_fifo, tx_full>>

\* The EC drops a request it cannot decode.
EcDrops ==
  /\ ec # <<>>
  /\ ec' = Tail(ec)
  /\ UNCHANGED <<relay, line, rx_fifo, tx_full>>

\* A byte arrives, or is lost to noise or to a full FIFO.
ByteArrives ==
  /\ line # <<>>
  /\ line' = Tail(line)
  /\ rx_fifo' \in {rx_fifo, Append(rx_fifo, Head(line))}
  /\ UNCHANGED <<relay, ec, tx_full>>

TxFills ==
  ~tx_full /\ tx_full' = TRUE /\ UNCHANGED <<relay, ec, line, rx_fifo>>

TxDrains ==
  tx_full /\ tx_full' = FALSE /\ UNCHANGED <<relay, ec, line, rx_fifo>>

World == EcAnswers \/ EcDrops \/ ByteArrives \/ TxFills \/ TxDrains

Next ==
  \/ \E command \in Command : invoke_request(command)
  \/ Relay
  \/ World

\* The secure partition's loop runs on; write_bytes spins until it sees TXFF
\* clear, which it does if TXFF is clear again and again.
Fairness ==
  /\ WF_vars(poll_empty) /\ WF_vars(rx_packet_full) /\ WF_vars(read_byte)
  /\ SF_vars(send_packet)
  /\ WF_vars(TxDrains)

Spec == Init /\ [][Next]_vars /\ Fairness

-----------------------------------------------------------------------------
(* Properties.                                                             *)

\* Types; in particular rx_packet is never overrun.
TypeOK ==
  /\ pc \in {"idle", "send", "recv"}
  /\ request \in Call
  /\ buf \in Seq(Byte) /\ Len(buf) <= RX_PACKET_LEN
  /\ polls \in 1 .. RX_POLL_BUDGET
  /\ result \in [code : EcRelayError \cup {"Ok", "None"}, n : Nat,
                body : BodyLen, remote : Nat]
  /\ ec \in Seq(Call)
  /\ line \in Seq(Byte) /\ rx_fifo \in Seq(Byte)
  /\ tx_full \in BOOLEAN
  /\ gave_up \in Nat

\* A result is never the answer to a later request, and lags behind its own
\* request by at most the number of invokes that gave up before: as long as
\* none has, a caller gets the answer to its own request.
LagBounded ==
  result.n # 0 => /\ result.n <= request.n
                  /\ request.n - result.n <= gave_up

\* One invocation is "one ODP request/response round-trip": a result that is
\* returned as Ok answers the request that was sent.
AnswersOwnRequest == result.code = "Ok" => result.n = request.n

\* The relay implements a channel of whole answers.  In particular, since the
\* channel's steps are fair, every invoke returns, whatever the EC does: a stuck
\* link cannot hang the partition as long as the transmit FIFO drains.  An
\* answer is in flight while all of its bytes are, next to each other; the
\* stream begins with what has been read of the current packet.
Stream == buf \o rx_fifo \o line
Ends(s) == {p \in FrameLen .. Len(s) :
              \A i \in 1 .. FrameLen : s[p - FrameLen + i] = Frame(s[p].frame)[i]}
Sorted(S) == CHOOSE f \in [1 .. Cardinality(S) -> S] :
               \A i, j \in DOMAIN f : i < j => f[i] < f[j]
Frames(s) == [i \in DOMAIN Sorted(Ends(s)) |-> s[Sorted(Ends(s))[i]].frame]
InFlight == Frames(Stream)
\* What a service makes of an error: the EC's own or any other.
Seen == IF result.code \in {"Ok", "Remote", "None"} THEN result.code ELSE "Err"
Channel == INSTANCE EcChannel WITH pending <- ec, answers <- InFlight,
                                   outcome <- [code |-> Seen, n |-> result.n,
                                               remote |-> result.remote]
ImplementsChannel == Channel!Spec
=============================================================================
