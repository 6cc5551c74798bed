------------------------------ MODULE FfaCalls ------------------------------
(***************************************************************************)
(* The register formats of the FF-A calls (odp-ffa/src): what each call    *)
(* puts into x1 .. x17 before the SMC, what the conversions back read from *)
(* them, and how an answer is taken for a success or an error.             *)
(*                                                                         *)
(* Widths scale with BYTE, the number of values of a byte: a u16 has two   *)
(* bytes, a u32 four and a u64 eight, so that every value of a word can be *)
(* enumerated; BYTE is 256 in the code.  Counts of bytes and registers are *)
(* the code's own.                                                         *)
(*                                                                         *)
(* For each call there are its fields, its registers (into) and, where the *)
(* code has the conversion, its fields read back (from).  A definition     *)
(* that stands before another with the same name and a suffix is a faulty  *)
(* variant of it, which the properties tell apart from the code.           *)
(***************************************************************************)
EXTENDS Naturals, Sequences

CONSTANT BYTE       \* values of a byte
ASSUME ByteAssumption == BYTE \in Nat /\ BYTE > 1
\* It is a power of two: only 1 divides it and is odd.
ASSUME PowerAssumption == \A d \in 2 .. BYTE : BYTE % d = 0 => d % 2 = 0

U16 == BYTE * BYTE
U32 == U16 * U16
U64 == U32 * U32
u8 == 0 .. BYTE - 1
u16 == 0 .. U16 - 1
u32 == 0 .. U32 - 1
u64 == 0 .. U64 - 1

PARAMS == 17        \* x1 .. x17
REG_BYTES == 8
PAYLOAD_REGS == 14  \* x4 .. x17

\* The bitwise or of two words.
Or[p \in Nat \X Nat] ==
  IF p[1] = 0 /\ p[2] = 0 THEN 0
  ELSE 2 * Or[<<p[1] \div 2, p[2] \div 2>>]
         + (IF (p[1] % 2) + (p[2] % 2) > 0 THEN 1 ELSE 0)

\* Casts to u16 and u32, of a word and of a word shifted right by their width.
low_u16(v) == v % U16
high_u16(v) == (v \div U16) % U16
low_u32(v) == v % U32
high_u32(v) == (v \div U32) % U32

combine_low_high_u16(low, high) == high * U16 + low
combine_low_high_u32(low, high) == high * U32 + low

\* SmcParams, from as many values as there are; the error is no registers.
TooManySmcParams == <<>>
try_from_iter(s) ==
  IF Len(s) > PARAMS THEN TooManySmcParams
  ELSE [i \in 1 .. PARAMS |-> IF i <= Len(s) THEN s[i] ELSE 0]

-----------------------------------------------------------------------------
(* Bytes and registers.                                                    *)

\* What the i-th byte of a register counts for.
Unit == <<1, BYTE, U16, U16 * BYTE, U32, U32 * BYTE, U32 * U16, U32 * U16 * BYTE>>
from_le_bytes(b) ==
  b[1] + b[2] * Unit[2] + b[3] * Unit[3] + b[4] * Unit[4] + b[5] * Unit[5]
    + b[6] * Unit[6] + b[7] * Unit[7] + b[8] * Unit[8]
to_le_bytes(v) == [i \in 1 .. REG_BYTES |-> (v \div Unit[i]) % BYTE]

\* u64::to_be and u64::from_be on a little-endian machine.
swap_none(v) == v
swap(v) ==
  from_le_bytes([i \in 1 .. REG_BYTES |-> to_le_bytes(v)[REG_BYTES + 1 - i]])

\* DirectMessagePayload: zero where no byte was given; more bytes than fit
\* would be an index out of range.
PAYLOAD_LEN == PAYLOAD_REGS * REG_BYTES
payload_from_iter(bytes) ==
  [i \in 1 .. PAYLOAD_LEN |-> IF i <= Len(bytes) THEN bytes[i] ELSE 0]
registers_iter(payload) ==
  [k \in 1 .. PAYLOAD_REGS |->
     from_le_bytes([i \in 1 .. REG_BYTES |->
                      payload[REG_BYTES * (k - 1) + i]])]

-----------------------------------------------------------------------------
(* Calls.                                                                  *)

Version == [fn : {"Version"}, major : u16, minor : u16]
Version_into(c) == <<combine_low_high_u16(c.minor, c.major)>>
Version_from(x) ==
  [fn |-> "Version", major |-> high_u16(x[1]), minor |-> low_u16(x[1])]
\* The answer is x0 itself; its top bit as a u32 marks an error.
Version_exec_unchecked(x0) ==
  [fn |-> "Version", major |-> high_u16(x0), minor |-> low_u16(x0)]
Version_exec(x0) ==
  IF (x0 \div (U32 \div 2)) % 2 = 0
  THEN [fn |-> "Version", major |-> high_u16(x0), minor |-> low_u16(x0)]
  ELSE [fn |-> "InvalidFunctionId"]

NotificationSet == [fn : {"NotificationSet"}, sender_id : u16,
                    receiver_id : u16, flags : u32, notification_bitmap : u64]
NotificationSet_into(c) ==
  <<combine_low_high_u16(c.receiver_id, c.sender_id), c.flags,
    low_u32(c.notification_bitmap), high_u32(c.notification_bitmap)>>
NotificationSet_from(x) ==
  [fn |-> "NotificationSet", sender_id |-> high_u16(x[1]),
   receiver_id |-> low_u16(x[1]), flags |-> low_u32(x[2]),
   notification_bitmap |-> combine_low_high_u32(low_u32(x[3]), low_u32(x[4]))]

NotificationBindFlags == [Global |-> 0, PerVCpu |-> 1]
NotificationBind == [fn : {"NotificationBind"}, sender_id : u16,
                     receiver_id : u16, flags : DOMAIN NotificationBindFlags,
                     notification_bitmap : u64]
NotificationBind_into(c) ==
  <<combine_low_high_u16(c.receiver_id, c.sender_id),
    NotificationBindFlags[c.flags],
    low_u32(c.notification_bitmap), high_u32(c.notification_bitmap)>>

NotificationGet == [fn : {"NotificationGet"}, receiver_cpu_id : u16,
                    receiver_endpoint_id : u16, flags : u32]
NotificationGet_into(c) ==
  <<combine_low_high_u16(c.receiver_endpoint_id, c.receiver_cpu_id), c.flags>>
NotificationGet_from(x) ==
  [fn |-> "NotificationGet", receiver_cpu_id |-> high_u16(x[1]),
   receiver_endpoint_id |-> low_u16(x[1]), flags |-> low_u32(x[2])]
NotificationGet_exec(x) ==
  [sp |-> combine_low_high_u32(low_u32(x[2]), low_u32(x[3])),
   vm |-> combine_low_high_u32(low_u32(x[4]), low_u32(x[5])),
   fw |-> combine_low_high_u32(low_u32(x[6]), low_u32(x[7]))]

Features == [fn : {"Features"}, feature_id : u64, input_properties : u64]
Features_into(c) == <<c.feature_id, c.input_properties>>
Features_from(x) ==
  [fn |-> "Features", feature_id |-> x[1], input_properties |-> x[2]]
Features_exec(x) == [interface_properties |-> x[2]]

RxTxMap == [fn : {"RxTxMap"}, tx_address : u64, rx_address : u64,
            page_count : u32]
RxTxMap_into(c) == <<c.tx_address, c.rx_address, c.page_count>>
RxTxMap_from(x) ==
  [fn |-> "RxTxMap", tx_address |-> x[1], rx_address |-> x[2],
   page_count |-> low_u32(x[3])]

MemRetrieveReq == [fn : {"MemRetrieveReq"}, total_length : u64,
                   frag_length : u64, tx_address : u64, page_count : u64]
MemRetrieveReq_into(c) ==
  <<c.total_length, c.frag_length, c.tx_address, c.page_count>>
MemRetrieveReq_from(x) ==
  [fn |-> "MemRetrieveReq", total_length |-> x[1], frag_length |-> x[2],
   tx_address |-> x[3], page_count |-> x[4]]

Interrupt == [fn : {"Interrupt"}, endpoint_id : u16, vcpu_id : u16,
              interrupt_id : u32]
Interrupt_into(c) ==
  <<combine_low_high_u16(c.vcpu_id, c.endpoint_id), c.interrupt_id>>

MsgYield == [fn : {"MsgYield"}, vcpu_id : u16, endpoint_id : u16, timeout : u64]
MsgYield_into(c) ==
  <<combine_low_high_u16(c.vcpu_id, c.endpoint_id), low_u32(c.timeout),
    high_u32(c.timeout)>>
\* The low half is not masked.
MsgYield_from(x) ==
  [fn |-> "MsgYield", vcpu_id |-> low_u16(x[1]), endpoint_id |-> high_u16(x[1]),
   timeout |-> Or[<<combine_low_high_u32(0, low_u32(x[3])), x[2]>>]]

MsgSend2 == [fn : {"MsgSend2"}, sender_id : u16, flags : u32]
MsgSend2_into(c) == <<combine_low_high_u16(0, c.sender_id), c.flags>>
MsgSend2_from(x) ==
  [fn |-> "MsgSend2", sender_id |-> high_u16(x[1]), flags |-> low_u32(x[2])]

\* A direct request or response; a uuid is its two big-endian halves.
DirectMessage(payloads) ==
  [fn : {"MsgSendDirectReq2", "MsgSendDirectResp2"}, source_id : u16,
   destination_id : u16, uuid_high : u64, uuid_low : u64, payload : payloads]
DirectMessage_into(c) ==
  <<combine_low_high_u16(c.destination_id, c.source_id), swap(c.uuid_high),
    swap(c.uuid_low)>> \o registers_iter(c.payload)
DirectMessage_from(fn, x) ==
  [fn |-> fn, source_id |-> high_u16(x[1]), destination_id |-> low_u16(x[1]),
   uuid_high |-> swap(x[2]), uuid_low |-> swap(x[3]),
   payload |-> payload_from_iter(
                 [i \in 1 .. PAYLOAD_REGS * REG_BYTES |->
                    to_le_bytes(x[4 + ((i - 1) \div REG_BYTES)])
                               [((i - 1) % REG_BYTES) + 1]])]

\* MsgSendDirectResp2::from_req_with_payload.
from_req_with_payload(req, payload) ==
  [fn |-> "MsgSendDirectResp2", source_id |-> req.destination_id,
   destination_id |-> req.source_id, uuid_high |-> req.uuid_high,
   uuid_low |-> req.uuid_low, payload |-> payload]

-----------------------------------------------------------------------------
(* Answers.                                                                *)

\* The function ids that answers carry, as far as the code tells them apart;
\* "Unknown" is no FunctionId.
Success == {"Success32", "Success64", "MsgSendDirectReq2"}
AnswerId == Success \cup {"Error", "Interrupt", "MsgRun", "MemRetrieveResp",
                          "Unknown"}

\* exec_simple and handle_result_simple.  Error numbers are not modelled: an
\* answer whose number is no ErrorCode (InvalidErrorCode) is an "ErrorCode" too.
handle_result_simple(id) ==
  CASE id \in Success -> "Ok"
    [] id = "Error" -> "ErrorCode"
    [] id = "Unknown" -> "InvalidFunctionId"
    [] OTHER -> "UnexpectedFunctionId"
=============================================================================
