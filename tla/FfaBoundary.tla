---------------------------- MODULE FfaBoundary ----------------------------
(***************************************************************************)
(* Every FF-A call of odp-ffa across the SMC boundary: the partition       *)
(* encodes it, the other side reads the registers, and a direct request    *)
(* read this way is answered by a response built from it.  Between calls   *)
(* the partition logs (FfaConsole); both use the registers of one core.    *)
(* What the registers must hold is stated by Layout, the tables of the     *)
(* FF-A ABI, independently of the encoders.                                *)
(***************************************************************************)
EXTENDS FfaConsole

CONSTANTS
  Ids,       \* endpoint, cpu and version numbers that occur
  Flags,     \* u32 values that occur
  Longs,     \* u64 values that occur
  Payloads   \* payloads of direct messages that occur

ASSUME SamplesAssumption ==
  /\ Ids \subseteq u16 /\ Flags \subseteq u32 /\ Longs \subseteq u64
  /\ Payloads \subseteq [1 .. PAYLOAD_LEN -> u8]

\* The calls that occur, except the responses, which are built from requests.
Call ==
  UNION {
    [fn : {"Version"}, major : Ids, minor : Ids],
    [fn : {"NotificationSet"}, sender_id : Ids, receiver_id : Ids,
     flags : Flags, notification_bitmap : Longs],
    [fn : {"NotificationBind"}, sender_id : Ids, receiver_id : Ids,
     flags : DOMAIN NotificationBindFlags, notification_bitmap : Longs],
    [fn : {"NotificationGet"}, receiver_cpu_id : Ids,
     receiver_endpoint_id : Ids, flags : Flags],
    [fn : {"Features"}, feature_id : Longs, input_properties : Longs],
    [fn : {"RxTxMap"}, tx_address : Longs, rx_address : Longs,
     page_count : Flags],
    [fn : {"MemRetrieveReq"}, total_length : Longs, frag_length : Longs,
     tx_address : Longs, page_count : Longs],
    [fn : {"Interrupt"}, endpoint_id : Ids, vcpu_id : Ids,
     interrupt_id : Flags],
    [fn : {"MsgYield"}, vcpu_id : Ids, endpoint_id : Ids, timeout : Longs],
    [fn : {"MsgSend2"}, sender_id : Ids, flags : Flags],
    [fn : {"MsgSendDirectReq2"}, source_id : Ids, destination_id : Ids,
     uuid_high : Longs, uuid_low : Longs, payload : Payloads]}

into(c) ==
  CASE c.fn = "Version" -> Version_into(c)
    [] c.fn = "NotificationSet" -> NotificationSet_into(c)
    [] c.fn = "NotificationBind" -> NotificationBind_into(c)
    [] c.fn = "NotificationGet" -> NotificationGet_into(c)
    [] c.fn = "Features" -> Features_into(c)
    [] c.fn = "RxTxMap" -> RxTxMap_into(c)
    [] c.fn = "MemRetrieveReq" -> MemRetrieveReq_into(c)
    [] c.fn = "Interrupt" -> Interrupt_into(c)
    [] c.fn = "MsgYield" -> MsgYield_into(c)
    [] c.fn = "MsgSend2" -> MsgSend2_into(c)
    [] OTHER -> DirectMessage_into(c)

\* The calls that odp-ffa can read back.
Readable == {"Version", "NotificationSet", "NotificationGet", "Features",
             "RxTxMap", "MemRetrieveReq", "MsgYield", "MsgSend2",
             "MsgSendDirectReq2", "MsgSendDirectResp2"}
from(fn, x) ==
  CASE fn = "Version" -> Version_from(x)
    [] fn = "NotificationSet" -> NotificationSet_from(x)
    [] fn = "NotificationGet" -> NotificationGet_from(x)
    [] fn = "Features" -> Features_from(x)
    [] fn = "RxTxMap" -> RxTxMap_from(x)
    [] fn = "MemRetrieveReq" -> MemRetrieveReq_from(x)
    [] fn = "MsgYield" -> MsgYield_from(x)
    [] fn = "MsgSend2" -> MsgSend2_from(x)
    [] OTHER -> DirectMessage_from(fn, x)

VARIABLES
  phase,   \* "ready", "smc" (registers set), "respond", "answer" or "done"
  call,    \* what was encoded last
  x,       \* x1 .. x17
  heard    \* what was read from the registers

calls == <<phase, call, x, heard>>
all == <<vars, calls>>

Nothing == [fn |-> "None"]
UnexpectedFunctionId == [fn |-> "UnexpectedFunctionId"]

BoundaryInit ==
  /\ Init
  /\ phase = "ready"
  /\ call = Nothing /\ heard = Nothing
  /\ x = try_from_iter(<<>>)

Send(c) ==
  /\ call' = c
  /\ x' = try_from_iter(into(c))
  /\ phase' = "smc"
  /\ heard' = Nothing

\* exec on a call.
ffa_smc(c) == phase = "ready" /\ Send(c)

\* try_from_smc_call for the function F, at the other side: another function's
\* registers are refused.
try_from_smc_call(F) ==
  /\ phase = "smc"
  /\ \/ /\ call.fn = F
        /\ heard' = from(F, x)
        /\ phase' = CASE F = "MsgSendDirectReq2" -> "respond"
                   [] F \in {"NotificationGet", "Features", "Version"} -> "answer"
                   [] OTHER -> "done"
     \/ /\ call.fn # F
        /\ heard' = UnexpectedFunctionId
        /\ phase' = "done"
  /\ UNCHANGED <<call, x>>

\* A call that nobody reads back.
Consumed ==
  /\ phase = "smc"
  /\ call.fn \notin Readable
  /\ phase' = "done"
  /\ UNCHANGED <<call, x, heard>>

\* The service answers the request it read.
Respond ==
  /\ phase = "respond"
  /\ \E payload \in Payloads : Send(from_req_with_payload(heard, payload))

\* The SPMC answers FFA_NOTIFICATION_GET with three bitmaps in w2 .. w7.
NotificationGet_answer(sp, vm, fw) ==
  /\ phase = "answer" /\ call.fn = "NotificationGet"
  /\ phase' = "done"
  /\ x' = try_from_iter(<<0, sp % U32, sp \div U32, vm % U32, vm \div U32,
                          fw % U32, fw \div U32>>)
  /\ heard' = NotificationGet_exec(x')
  /\ call' = [sp |-> sp, vm |-> vm, fw |-> fw]

\* The SPMC answers FFA_FEATURES with the properties of the interface in w2.
Features_answer(properties) ==
  /\ phase = "answer" /\ call.fn = "Features"
  /\ phase' = "done"
  /\ x' = try_from_iter(<<0, properties>>)
  /\ heard' = Features_exec(x')
  /\ call' = [interface_properties |-> properties]

\* The SPMC answers FFA_VERSION with its version, whose top bit is clear, or
\* with NOT_SUPPORTED, a u32 of ones.
Version_answer(major, minor) ==
  /\ phase = "answer" /\ call.fn = "Version"
  /\ phase' = "done"
  /\ \/ /\ heard' = Version_exec(major * U16 + minor)
        /\ call' = [fn |-> "Version", major |-> major, minor |-> minor]
     \/ /\ heard' = Version_exec(U32 - 1)
        /\ call' = [fn |-> "InvalidFunctionId"]
  /\ UNCHANGED x

\* exec has returned.
Return ==
  /\ phase = "done"
  /\ phase' = "ready"
  /\ call' = Nothing /\ heard' = Nothing
  /\ x' = try_from_iter(<<>>)

smc ==
  \/ \E c \in Call : ffa_smc(c)
  \/ \E F \in Readable : try_from_smc_call(F)
  \/ Consumed
  \/ Respond
  \/ \E sp, vm, fw \in Longs : NotificationGet_answer(sp, vm, fw)
  \/ \E properties \in Flags : Features_answer(properties)
  \/ \E major \in {i \in Ids : i < U16 \div 2}, minor \in Ids :
       Version_answer(major, minor)
  \/ Return

\* One core: a record is logged between calls, and a call made between records.
BoundaryNext ==
  \/ pc = "idle" /\ smc /\ UNCHANGED vars
  \/ phase = "ready" /\ Next /\ UNCHANGED calls

BoundarySpec ==
  BoundaryInit /\ [][BoundaryNext]_all /\ WF_all(write /\ UNCHANGED calls)

-----------------------------------------------------------------------------
(* The registers that the FF-A ABI prescribes: value v in the bits of      *)
(* register reg that begin at the one that counts for unit.                *)

Field(v, reg, unit) == {[v |-> v, reg |-> reg, unit |-> unit]}
Halves(high, low) == Field(high, 1, U16) \cup Field(low, 1, 1)
Word(v, reg) == Field(v, reg, 1)
Split(v, reg) == Word(v % U32, reg) \cup Word(v \div U32, reg + 1)
\* The most significant byte of v comes first.
BigEndian(v, reg) ==
  UNION {Field((v \div Unit[i]) % BYTE, reg, Unit[REG_BYTES + 1 - i]) :
           i \in 1 .. REG_BYTES}

\* For the UUID of a response, direct_message.rs is the only source.
Layout(c) ==
  CASE c.fn = "Version" -> Halves(c.major, c.minor)
    [] c.fn = "NotificationSet" ->
         Halves(c.sender_id, c.receiver_id) \cup Word(c.flags, 2)
           \cup Split(c.notification_bitmap, 3)
    [] c.fn = "NotificationBind" ->
         Halves(c.sender_id, c.receiver_id)
           \cup Word(IF c.flags = "PerVCpu" THEN 1 ELSE 0, 2)
           \cup Split(c.notification_bitmap, 3)
    [] c.fn = "NotificationGet" ->
         Halves(c.receiver_cpu_id, c.receiver_endpoint_id)
           \cup Word(c.flags, 2)
    [] c.fn = "Features" ->
         Word(c.feature_id, 1) \cup Word(c.input_properties, 2)
    [] c.fn = "RxTxMap" ->
         Word(c.tx_address, 1) \cup Word(c.rx_address, 2)
           \cup Word(c.page_count, 3)
    [] c.fn = "MemRetrieveReq" ->
         Word(c.total_length, 1) \cup Word(c.frag_length, 2)
           \cup Word(c.tx_address, 3) \cup Word(c.page_count, 4)
    [] c.fn = "Interrupt" ->
         Halves(c.endpoint_id, c.vcpu_id) \cup Word(c.interrupt_id, 2)
    [] c.fn = "MsgYield" ->
         Halves(c.endpoint_id, c.vcpu_id) \cup Split(c.timeout, 2)
    [] c.fn = "MsgSend2" ->
         Halves(c.sender_id, 0) \cup Word(c.flags, 2)
    [] OTHER ->
         Halves(c.source_id, c.destination_id)
           \cup BigEndian(c.uuid_high, 2) \cup BigEndian(c.uuid_low, 3)
           \cup UNION {Field(c.payload[i], 4 + (i - 1) \div REG_BYTES,
                             Unit[((i - 1) % REG_BYTES) + 1]) :
                         i \in 1 .. PAYLOAD_LEN}

-----------------------------------------------------------------------------
(* Properties.                                                             *)

\* The calls with their fields in the width that odp-ffa gives them.
WellTyped(c) ==
  \/ c \in Version \/ c \in NotificationSet \/ c \in NotificationBind
  \/ c \in NotificationGet \/ c \in Features \/ c \in RxTxMap
  \/ c \in MemRetrieveReq \/ c \in Interrupt \/ c \in MsgYield
  \/ c \in MsgSend2 \/ c \in DirectMessage([1 .. PAYLOAD_LEN -> u8])

\* Types: registers are u64s, no encoder needs more than seventeen of them,
\* and what is read fits the fields it is read into.
TypeOK ==
  /\ ConsoleTypeOK
  /\ phase = "smc" => WellTyped(call)
  /\ phase = "respond" => WellTyped(heard)
  /\ phase \in {"ready", "smc", "respond", "answer", "done"}
  /\ x \in [1 .. PARAMS -> u64]

\* The encoders put every field where the FF-A ABI has it and nothing else
\* into any register.
LayoutHolds ==
  phase = "smc" =>
    \A r \in 1 .. PARAMS :
      x[r] = MapThenSumSet(LAMBDA f : f.v * f.unit,
                           {f \in Layout(call) : f.reg = r})

\* What one side encodes the other reads, field by field, and never as another
\* call; NotificationGet and Features read what the SPMC returned, and Version
\* tells a version from an error.
RoundTrip == heard \notin {Nothing, UnexpectedFunctionId} => heard = call
=============================================================================
